---------------------------- MODULE Spec2Model ----------------------------
(***************************************************************************)
(* A model of the security scanner of TraceMap (src/securityScanner.ts)    *)
(* and of the risk classifier of its report generator                      *)
(* (src/localSearchProvider.ts).                                           *)
(*                                                                         *)
(* Source text is a sequence of one-character strings (JavaScript string   *)
(* indexes are 0-based, sequence indexes 1-based).  A rule's regular       *)
(* expression is modelled by a global regular expression without           *)
(* metacharacters, an ordered alternation of literal words w1|w2|...; the  *)
(* cursor semantics of RegExp.prototype.exec is kept in full.  Each        *)
(* catalog rule is given a one-letter word that stands for the source text *)
(* its expression accepts (e.g. "e" for `eval(`), and the letter "x"       *)
(* stands for text such as `exec("SELECT " + userInput` that both the      *)
(* first sql-injection rule and the command-injection rule accept.         *)
(***************************************************************************)
EXTENDS Integers, Sequences, FiniteSets, TLC

\* ------------------------------------------------------------------ bounds
\* longest file content of the single-file specifications
MaxLen == 5
\* largest number of files in the workspace
MaxFiles == 2
\* number of scans run one after the other on one scanner instance
MaxScans == 2
\* largest severity count given to the risk classifier
MaxCount == 11

\* the most commands run on the Security panel
MaxCalls == 4
\* largest critical, high and medium count given to the dashboard
MaxSevere == 2
\* largest low count given to the dashboard
MaxLow == 4
\* the most edits of workspace files while commands run
MaxEdits == 1

\* ---------------------------------------------------------- string helpers
Min(S) == CHOOSE x \in S : \A y \in S : x <= y

Max(S) == CHOOSE x \in S : \A y \in S : x >= y

\* String.prototype.substring(0, n): n is clamped to the length
Substring0(s, n) == SubSeq(s, 1, IF n > Len(s) THEN Len(s) ELSE n)

\* String.prototype.indexOf(w): 0-based index of the first occurrence, or -1
IndexOf(s, w) ==
    LET hits == {i \in 0..(Len(s) - Len(w)) : SubSeq(s, i + 1, i + Len(w)) = w}
    IN  IF hits = {} THEN -1 ELSE Min(hits)

\* String.prototype.lastIndexOf(w): 0-based index of the last occurrence, or -1
LastIndexOf(s, w) ==
    LET hits == {i \in 0..(Len(s) - Len(w)) : SubSeq(s, i + 1, i + Len(w)) = w}
    IN  IF hits = {} THEN -1 ELSE Max(hits)

\* String.prototype.split('\n')
RECURSIVE Split(_)
Split(s) ==
    LET p == IndexOf(s, <<"\n">>)
    IN  IF p = -1 THEN <<s>>
        ELSE <<SubSeq(s, 1, p)>> \o Split(SubSeq(s, p + 2, Len(s)))

Whitespace == {" ", "\t", "\r", "\n"}

\* String.prototype.trim()
RECURSIVE Trim(_)
Trim(s) ==
    IF s = <<>> THEN s
    ELSE IF s[1] \in Whitespace THEN Trim(Tail(s))
    ELSE IF s[Len(s)] \in Whitespace THEN Trim(SubSeq(s, 1, Len(s) - 1))
    ELSE s

\* ------------------------------------------------------------ rule catalog
\* SecurityScanner.initializePatterns: the 17 rules in catalog order.  The
\* comment of each rule names the head of the regular expression its word
\* stands for.
vulnerabilityPatterns == <<
    \* /(password|passwd|pwd|secret|token|api[_-]?key|...)\s*[=:]\s*['"]...['"]/gi
    [type |-> "hardcoded-secret", severity |-> "critical", pattern |-> << <<"k">> >>,
     message |-> "Hardcoded secret detected",
     description |-> "Sensitive credentials found directly in source code",
     recommendation |-> "Use environment variables or a secure secret management system",
     cweId |-> "CWE-798", owaspCategory |-> "A02:2021 - Cryptographic Failures",
     confidence |-> "high"],
    \* /(?:aws_access_key_id|aws_secret_access_key|AKIA[0-9A-Z]{16})/gi
    [type |-> "hardcoded-secret", severity |-> "critical", pattern |-> << <<"w">> >>,
     message |-> "AWS credentials hardcoded",
     description |-> "AWS access keys found in source code",
     recommendation |-> "Use AWS IAM roles or AWS Secrets Manager",
     cweId |-> "CWE-798", owaspCategory |-> "A02:2021 - Cryptographic Failures",
     confidence |-> "high"],
    \* /(?:execute|query|exec|executeSql|rawQuery)\s*\(\s*[`'"]?\s*(?:SELECT|...)[\s\S]*?\+\s*(?:\w+|req\.(...))/gi
    [type |-> "sql-injection", severity |-> "critical", pattern |-> << <<"q">>, <<"x">> >>,
     message |-> "SQL injection vulnerability",
     description |-> "SQL query constructed using string concatenation with user input",
     recommendation |-> "Use parameterized queries or prepared statements",
     cweId |-> "CWE-89", owaspCategory |-> "A03:2021 - Injection",
     confidence |-> "high"],
    \* /\$\{[^}]*(?:req\.(?:body|query|params)|...|input|userInput)[^}]*\}/g
    [type |-> "sql-injection", severity |-> "critical", pattern |-> << <<"t">> >>,
     message |-> "Potential SQL injection via template literals",
     description |-> "SQL query uses template literals with user input",
     recommendation |-> "Use parameterized queries instead of template literals",
     cweId |-> "CWE-89", owaspCategory |-> "A03:2021 - Injection",
     confidence |-> "medium"],
    \* /\.innerHTML\s*=\s*(?!\s*['""])/g
    [type |-> "xss-vulnerability", severity |-> "high", pattern |-> << <<"h">> >>,
     message |-> "XSS vulnerability via innerHTML",
     description |-> "Setting innerHTML with potentially unsafe content",
     recommendation |-> "Use textContent or sanitize HTML with DOMPurify",
     cweId |-> "CWE-79", owaspCategory |-> "A03:2021 - Injection",
     confidence |-> "medium"],
    \* /dangerouslySetInnerHTML\s*=\s*\{\s*\{?\s*__html:/g
    [type |-> "xss-vulnerability", severity |-> "high", pattern |-> << <<"d">> >>,
     message |-> "React XSS vulnerability",
     description |-> "Using dangerouslySetInnerHTML without sanitization",
     recommendation |-> "Sanitize HTML content or use safer alternatives",
     cweId |-> "CWE-79", owaspCategory |-> "A03:2021 - Injection",
     confidence |-> "medium"],
    \* /(?:exec|execSync|spawn|execFile|child_process)\s*\([^)]*(?:\+|`|\$\{)[^)]*(?:req\.(...)|input|userInput)/gi
    [type |-> "command-injection", severity |-> "critical", pattern |-> << <<"c">>, <<"x">> >>,
     message |-> "Command injection vulnerability",
     description |-> "Executing system commands with unsanitized user input",
     recommendation |-> "Avoid executing user input; use allowlists or safer alternatives",
     cweId |-> "CWE-78", owaspCategory |-> "A03:2021 - Injection",
     confidence |-> "high"],
    \* /(?:readFile|readFileSync|writeFile|...)\s*\([^)]*(?:req\.(...)|input|userInput)(?:\.|\+|\[)/gi
    [type |-> "path-traversal", severity |-> "high", pattern |-> << <<"p">> >>,
     message |-> "Path traversal vulnerability",
     description |-> "File operations with unsanitized user-provided paths",
     recommendation |-> "Validate and sanitize file paths; use allowlists",
     cweId |-> "CWE-22", owaspCategory |-> "A01:2021 - Broken Access Control",
     confidence |-> "high"],
    \* /\beval\s*\(/g
    [type |-> "unsafe-eval", severity |-> "critical", pattern |-> << <<"e">> >>,
     message |-> "Unsafe use of eval()",
     description |-> "eval() can execute arbitrary code and is extremely dangerous",
     recommendation |-> "Remove eval() and use safer alternatives like JSON.parse()",
     cweId |-> "CWE-95", owaspCategory |-> "A03:2021 - Injection",
     confidence |-> "high"],
    \* /new\s+Function\s*\(/g
    [type |-> "unsafe-eval", severity |-> "critical", pattern |-> << <<"f">> >>,
     message |-> "Unsafe use of Function constructor",
     description |-> "Function constructor can execute arbitrary code like eval()",
     recommendation |-> "Avoid dynamic code execution; use predefined functions",
     cweId |-> "CWE-95", owaspCategory |-> "A03:2021 - Injection",
     confidence |-> "high"],
    \* /Math\.random\s*\(\)/g
    [type |-> "insecure-random", severity |-> "medium", pattern |-> << <<"r">> >>,
     message |-> "Insecure random number generation",
     description |-> "Math.random() is not cryptographically secure",
     recommendation |-> "Use crypto.randomBytes() for security-sensitive operations",
     cweId |-> "CWE-330", owaspCategory |-> "A02:2021 - Cryptographic Failures",
     confidence |-> "medium"],
    \* /createCipher|createDecipher|createHash\s*\(\s*['"]md5['"]|createHash\s*\(\s*['"]sha1['"]/gi
    [type |-> "weak-crypto", severity |-> "high", pattern |-> << <<"m">> >>,
     message |-> "Weak cryptographic algorithm",
     description |-> "Using deprecated or weak cryptographic methods (MD5, SHA1, DES)",
     recommendation |-> "Use strong algorithms: AES-256-GCM, SHA-256, or better",
     cweId |-> "CWE-327", owaspCategory |-> "A02:2021 - Cryptographic Failures",
     confidence |-> "high"],
    \* /(?:Object|obj|\w+)\[['"]__proto__['"]\]|\[['"]constructor['"]\]\[['"]prototype['"]\]/g
    [type |-> "prototype-pollution", severity |-> "high", pattern |-> << <<"o">> >>,
     message |-> "Potential prototype pollution",
     description |-> "Modifying __proto__ or constructor.prototype can lead to security issues",
     recommendation |-> "Avoid dynamic property access on objects; use Object.create(null)",
     cweId |-> "CWE-1321", owaspCategory |-> "A08:2021 - Software and Data Integrity Failures",
     confidence |-> "high"],
    \* /(?:window\.location|location\.href|location\.replace)\s*=\s*(?:req\.(...)|input|userInput)/gi
    [type |-> "open-redirect", severity |-> "medium", pattern |-> << <<"l">> >>,
     message |-> "Open redirect vulnerability",
     description |-> "Redirecting to user-controlled URLs without validation",
     recommendation |-> "Validate redirect URLs against an allowlist",
     cweId |-> "CWE-601", owaspCategory |-> "A01:2021 - Broken Access Control",
     confidence |-> "medium"],
    \* /console\.log\s*\([^)]*(?:password|token|secret|creditCard|ssn|apiKey)/gi
    [type |-> "sensitive-data-exposure", severity |-> "high", pattern |-> << <<"s">> >>,
     message |-> "Sensitive data in console logs",
     description |-> "Logging sensitive information to console",
     recommendation |-> "Remove sensitive data from logs or use secure logging",
     cweId |-> "CWE-532", owaspCategory |-> "A04:2021 - Insecure Design",
     confidence |-> "high"],
    \* /['"]Access-Control-Allow-Origin['"]\s*[,:]?\s*['"]?\*['"]?/gi
    [type |-> "cors-misconfiguration", severity |-> "medium", pattern |-> << <<"a">> >>,
     message |-> "Insecure CORS configuration",
     description |-> "CORS configured to allow all origins (*)",
     recommendation |-> "Specify allowed origins explicitly; avoid wildcard",
     cweId |-> "CWE-942", owaspCategory |-> "A05:2021 - Security Misconfiguration",
     confidence |-> "high"],
    \* /\.stack\s*\)/g
    [type |-> "information-disclosure", severity |-> "low", pattern |-> << <<"i">> >>,
     message |-> "Stack trace exposure",
     description |-> "Exposing error stack traces can reveal sensitive information",
     recommendation |-> "Log stack traces internally; show generic errors to users",
     cweId |-> "CWE-209", owaspCategory |-> "A05:2021 - Security Misconfiguration",
     confidence |-> "low"] >>

NumRules == Len(vulnerabilityPatterns)

\* the kinds of vulnerability: the type SecurityVulnerabilityType
SecurityVulnerabilityType ==
    {"hardcoded-secret", "sql-injection", "xss-vulnerability", "command-injection",
     "path-traversal", "insecure-random", "weak-crypto", "unsafe-eval",
     "prototype-pollution", "xxe-vulnerability", "open-redirect",
     "insecure-deserialization", "sensitive-data-exposure", "cors-misconfiguration",
     "csrf-vulnerability", "information-disclosure"}

\* ----------------------------------------------------------- match locator
\* The first alternative of the pattern that matches s at 0-based offset i:
\* the length of the match, or -1 when none matches there.
MatchAt(words, s, i) ==
    LET ok == {k \in 1..Len(words) :
                  /\ i + Len(words[k]) <= Len(s)
                  /\ SubSeq(s, i + 1, i + Len(words[k])) = words[k]}
    IN  IF ok = {} THEN -1 ELSE Len(words[Min(ok)])

\* exec that leaves lastIndex where it was when it finds no match
Exec_NoResetOnFailure(words, s, lastIndex) ==
    LET starts == {i \in lastIndex..Len(s) : MatchAt(words, s, i) >= 0}
    IN  IF starts = {}
        THEN [matched |-> FALSE, index |-> -1, lastIndex |-> lastIndex]
        ELSE [matched |-> TRUE, index |-> Min(starts),
              lastIndex |-> Min(starts) + MatchAt(words, s, Min(starts))]

\* RegExp.prototype.exec of a global expression: the leftmost match at or
\* after lastIndex; a match moves lastIndex to its end (which is its start
\* when the match is empty), a failure resets lastIndex to 0.
Exec(words, s, lastIndex) ==
    LET starts == {i \in lastIndex..Len(s) : MatchAt(words, s, i) >= 0}
    IN  IF starts = {}
        THEN [matched |-> FALSE, index |-> -1, lastIndex |-> 0]
        ELSE [matched |-> TRUE, index |-> Min(starts),
              lastIndex |-> Min(starts) + MatchAt(words, s, Min(starts))]

\* LineNumber with the newlines counted up to and including the line's own end
LineNumber_CountsPastMatch(content, index) ==
    Len(Split(Substring0(content, index))) + 1

\* the number of the line of 0-based offset index: beforeMatch.split('\n').length
LineNumber(content, index) == Len(Split(Substring0(content, index)))

\* the column counted from 0
Column_ZeroBased(content, index) ==
    index - (LastIndexOf(Substring0(content, index), <<"\n">>) + 1)

\* the 1-based column of offset index: index - (beforeMatch.lastIndexOf('\n') + 1) + 1
Column(content, index) ==
    index - (LastIndexOf(Substring0(content, index), <<"\n">>) + 1) + 1

\* lines[lineNumber - 1] || ''
LineContent(content, lineNumber) ==
    LET lines == Split(content)
    IN  IF lineNumber \in 1..Len(lines) THEN lines[lineNumber] ELSE <<>>

\* isInComment that takes a line for a comment only when it starts with the marker
isInComment_LineStartOnly(line, column) ==
    \/ Substring0(Trim(line), 2) = <<"/", "/">>
    \/ Substring0(Trim(line), 2) = <<"/", "*">>

\* SecurityScanner.isInComment
isInComment(line, column) ==
    LET beforeColumn == Substring0(line, column)
        singleCommentIndex == IndexOf(beforeColumn, <<"/", "/">>)
        multiCommentStart == LastIndexOf(beforeColumn, <<"/", "*">>)
        multiCommentEnd == LastIndexOf(beforeColumn, <<"*", "/">>)
    IN  IF singleCommentIndex # -1 /\ singleCommentIndex < column THEN TRUE
        ELSE IF multiCommentStart # -1 /\ multiCommentStart > multiCommentEnd THEN TRUE
        ELSE FALSE

\* the issue with the rule's confidence as its severity
MakeIssue_SeverityFromConfidence(content, rule, index) ==
    [type |-> rule.type, severity |-> rule.confidence,
     line |-> LineNumber(content, index), column |-> Column(content, index),
     code |-> Trim(LineContent(content, LineNumber(content, index))),
     message |-> rule.message, description |-> rule.description,
     recommendation |-> rule.recommendation, cweId |-> rule.cweId,
     owaspCategory |-> rule.owaspCategory, confidence |-> rule.confidence]

\* the issue with the kind csrf-vulnerability for the rule of cors-misconfiguration
MakeIssue_ReservedKind(content, rule, index) ==
    [type |-> IF rule.type = "cors-misconfiguration" THEN "csrf-vulnerability"
              ELSE rule.type,
     severity |-> rule.severity,
     line |-> LineNumber(content, index), column |-> Column(content, index),
     code |-> Trim(LineContent(content, LineNumber(content, index))),
     message |-> rule.message, description |-> rule.description,
     recommendation |-> rule.recommendation, cweId |-> rule.cweId,
     owaspCategory |-> rule.owaspCategory, confidence |-> rule.confidence]

\* the issue pushed for a match of rule at offset index (without file paths)
MakeIssue(content, rule, index) ==
    [type |-> rule.type, severity |-> rule.severity,
     line |-> LineNumber(content, index), column |-> Column(content, index),
     code |-> Trim(LineContent(content, LineNumber(content, index))),
     message |-> rule.message, description |-> rule.description,
     recommendation |-> rule.recommendation, cweId |-> rule.cweId,
     owaspCategory |-> rule.owaspCategory, confidence |-> rule.confidence]

\* Suppressed with the comment test run on the whole text before the match
Suppressed_WholePrefix(content, index) ==
    isInComment(Substring0(content, index + 1), index + 1)

\* whether the match at offset index is skipped as lying in a comment
Suppressed(content, index) ==
    isInComment(LineContent(content, LineNumber(content, index)), Column(content, index))

\* the while loop of findPatternMatches, from cursor lastIndex with the
\* issues acc found so far
RECURSIVE MatchLoop(_, _, _, _)
MatchLoop(content, rule, lastIndex, acc) ==
    LET m == Exec(rule.pattern, content, lastIndex)
    IN  IF ~m.matched THEN [issues |-> acc, lastIndex |-> m.lastIndex]
        ELSE MatchLoop(content, rule, m.lastIndex,
                       IF Suppressed(content, m.index) THEN acc
                       ELSE Append(acc, MakeIssue(content, rule, m.index)))

\* findPatternMatches that calls exec once, from the cursor the last call left
findPatternMatches_OneExecNoReset(content, rule, lastIndex) ==
    LET m == Exec(rule.pattern, content, lastIndex)
    IN  [issues |-> IF m.matched /\ ~Suppressed(content, m.index)
                    THEN <<MakeIssue(content, rule, m.index)>> ELSE <<>>,
         lastIndex |-> m.lastIndex]

\* SecurityScanner.findPatternMatches, entered with the rule's cursor at
\* lastIndex: the issues and the cursor it leaves
findPatternMatches(content, rule, lastIndex) == MatchLoop(content, rule, 0, <<>>)

\* ----------------------------------------------------------- file scanner
\* the issue of findPatternMatches with the paths of file f added (lines 313-317)
WithPaths(issue, f) == [filePath |-> f, relativePath |-> f] @@ issue

\* the loop over the catalog that drops an issue at a position an earlier
\* rule has already reported
RECURSIVE ScanRules_OneIssuePerSpan(_, _, _, _, _)
ScanRules_OneIssuePerSpan(text, f, k, cursors, acc) ==
    IF k > NumRules THEN [issues |-> acc, lastIndex |-> cursors]
    ELSE LET r == findPatternMatches(text, vulnerabilityPatterns[k], cursors[k])
             fresh == SelectSeq(r.issues,
                          LAMBDA x : \A i \in 1..Len(acc) :
                              acc[i].line # x.line \/ acc[i].column # x.column)
         IN  ScanRules_OneIssuePerSpan(text, f, k + 1,
                       [cursors EXCEPT ![k] = r.lastIndex],
                       acc \o [i \in 1..Len(fresh) |-> WithPaths(fresh[i], f)])

\* the for loop of scanFile over the catalog, from rule k on, with the
\* cursors of all rules and the issues acc of the rules before k
RECURSIVE ScanRules(_, _, _, _, _)
ScanRules(text, f, k, cursors, acc) ==
    IF k > NumRules THEN [issues |-> acc, lastIndex |-> cursors]
    ELSE LET r == findPatternMatches(text, vulnerabilityPatterns[k], cursors[k])
         IN  ScanRules(text, f, k + 1, [cursors EXCEPT ![k] = r.lastIndex],
                       acc \o [i \in 1..Len(r.issues) |-> WithPaths(r.issues[i], f)])

\* scanFile that lets the read error reach its caller
scanFile_Rethrows(file, f, cursors) ==
    IF file.readable
    THEN ScanRules(file.content, f, 1, cursors, <<>>) @@ [logged |-> FALSE, threw |-> FALSE]
    ELSE [issues |-> <<>>, lastIndex |-> cursors, logged |-> FALSE, threw |-> TRUE]

\* SecurityScanner.scanFile on file number f: the issues returned, the
\* cursors left, whether the read error was caught and logged, and whether
\* the call threw
scanFile(file, f, cursors) ==
    IF file.readable
    THEN ScanRules(file.content, f, 1, cursors, <<>>) @@ [logged |-> FALSE, threw |-> FALSE]
    ELSE [issues |-> <<>>, lastIndex |-> cursors, logged |-> TRUE, threw |-> FALSE]

\* ------------------------------------------------------------ orchestrator
Severities == {"critical", "high", "medium", "low"}

\* issues.filter(i => i.severity === sev).length
CountSeverity(iss, sev) == Cardinality({i \in 1..Len(iss) : iss[i].severity = sev})

\* the result with the high issues counted as critical as well
MakeResult_HighCountedAsCritical(iss, n) ==
    [issues |-> iss, filesScanned |-> n, totalIssues |-> Len(iss),
     criticalCount |-> CountSeverity(iss, "critical") + CountSeverity(iss, "high"),
     highCount |-> CountSeverity(iss, "high"),
     mediumCount |-> CountSeverity(iss, "medium"),
     lowCount |-> CountSeverity(iss, "low")]

\* the SecurityScanResult of lines 283-293, without scanDuration and timestamp
MakeResult(iss, n) ==
    [issues |-> iss, filesScanned |-> n, totalIssues |-> Len(iss),
     criticalCount |-> CountSeverity(iss, "critical"),
     highCount |-> CountSeverity(iss, "high"),
     mediumCount |-> CountSeverity(iss, "medium"),
     lowCount |-> CountSeverity(iss, "low")]

\* the extensions the filter of lines 258-261 keeps
JsTsExtensions == {".js", ".jsx", ".ts", ".tsx", ".mjs", ".cjs"}

\* files.filter(...): the indexes of the files with a kept extension, in order
RECURSIVE FilterJsTs(_, _)
FilterJsTs(files, i) ==
    IF i > Len(files) THEN <<>>
    ELSE (IF files[i].ext \in JsTsExtensions THEN <<i>> ELSE <<>>) \o FilterJsTs(files, i + 1)

\* ---------------------------------------------------------- risk classifier
\* calculateRiskLevel with the scale of levels upside down
calculateRiskLevel_ScaleInverted(result) ==
    IF result.criticalCount > 0 THEN "CLEAN"
    ELSE IF result.highCount >= 5 THEN "LOW"
    ELSE IF result.highCount > 0 \/ result.mediumCount >= 10 THEN "MEDIUM"
    ELSE IF result.mediumCount > 0 \/ result.lowCount > 0 THEN "HIGH"
    ELSE "CRITICAL"

\* calculateRiskLevel with the high threshold tested by > instead of >=
calculateRiskLevel_StrictHigh(result) ==
    IF result.criticalCount > 0 THEN "CRITICAL"
    ELSE IF result.highCount > 5 THEN "HIGH"
    ELSE IF result.highCount > 0 \/ result.mediumCount >= 10 THEN "MEDIUM"
    ELSE IF result.mediumCount > 0 \/ result.lowCount > 0 THEN "LOW"
    ELSE "CLEAN"

\* calculateRiskLevel with the medium threshold tested by = instead of >=
calculateRiskLevel_ExactlyTenMedium(result) ==
    IF result.criticalCount > 0 THEN "CRITICAL"
    ELSE IF result.highCount >= 5 THEN "HIGH"
    ELSE IF result.highCount > 0 \/ result.mediumCount = 10 THEN "MEDIUM"
    ELSE IF result.mediumCount > 0 \/ result.lowCount > 0 THEN "LOW"
    ELSE "CLEAN"

\* SecurityReportGenerator.calculateRiskLevel
calculateRiskLevel(result) ==
    IF result.criticalCount > 0 THEN "CRITICAL"
    ELSE IF result.highCount >= 5 THEN "HIGH"
    ELSE IF result.highCount > 0 \/ result.mediumCount >= 10 THEN "MEDIUM"
    ELSE IF result.mediumCount > 0 \/ result.lowCount > 0 THEN "LOW"
    ELSE "CLEAN"

\* -------------------------------------------------------------- variables
VARIABLES
    \* one call of findPatternMatches, one exec per step
    content,        \* the file content given to the call
    rule,           \* the rule given to the call
    cursor,         \* rule.pattern.lastIndex
    found,          \* the local list issues
    execLog,        \* the matches exec has returned to the loop, in order
    lpc,            \* "enter", "loop" or "returned"
    \* the scanner instance and its scans of the workspace
    fs,             \* the files of the workspace, as the collector lists them
    spc,            \* "idle", "collect" or "loop": where scanWorkspace stands
    jstsFiles,      \* the indexes in fs of the files kept by the filter
    idx,            \* the position in jstsFiles of the next file to scan
    issues,         \* the accumulator of scanWorkspace
    filesScanned,   \* the counter of scanWorkspace
    lastIndex,      \* the cursor of every catalog rule's expression
    results,        \* the results returned by the scans so far
    thrown,         \* the number of scans that threw
    consoleErrors,  \* the files for which scanFile logged a read error
    \* the risk classifier
    counts,         \* the severity counts of the result classified
    level,          \* the risk level computed for counts, "" before
    \* the dashboard's health score
    dashSecurity,   \* the security argument: <<>> for undefined, else <<result>>
    dashComplexity, \* the complexity argument: <<>> for undefined, else <<data>>
    overall,        \* what calculateOverallHealth returned: <<>> before, else <<r>>
    \* the scanSecurity command and the Security panel
    cpc,            \* "idle" or "scanning": where the scanSecurity command stands
    cancelRequested,\* token.isCancellationRequested of the command's progress
    scanResult,     \* SecurityActionsProvider.scanResult: <<>> for null, else <<result>>
    treeEvents,     \* the number of times _onDidChangeTreeData has fired
    panelCalls,     \* the updateResults and clearResults calls so far, in order
    notifications,  \* the messages shown by the security commands, in order
    reports,        \* the security reports written so far, in order
    \* two runs of the scanSecurity command at once
    calls,          \* for each run: where it stands, its token and the locals
                    \* of its scanWorkspace call
    events,         \* history: the starts and ends of the runs, and the files
                    \* read by one run between two reads of the other, in order
    edits           \* the number of edits of workspace files so far

locVars == <<content, rule, cursor, found, execLog, lpc>>

scanVars == <<fs, spc, jstsFiles, idx, issues, filesScanned, lastIndex, results,
              thrown, consoleErrors>>

riskVars == <<counts, level, dashSecurity, dashComplexity, overall>>

ovVars == <<calls, events, edits>>

cmdVars == <<cpc, cancelRequested, scanResult, treeEvents, panelCalls, notifications,
             reports, ovVars>>

vars == <<locVars, scanVars, riskVars, cmdVars>>

\* ------------------------------------------------ one findPatternMatches call
\* the first letters of the words of rule r
Letters(r) == {r.pattern[k][1] : k \in {j \in DOMAIN r.pattern : r.pattern[j] # <<>>}}

\* the characters of the contents given to a call with rule r: the comment
\* markers, the line break and the letters of r
Alphabet(r) == {"/", "*", "\n"} \cup Letters(r)

\* the characters of the contents with white space given to a call with
\* rule r: the slash, the line break, the blank and the letters of r
SpacedAlphabet(r) == {"/", "\n", " "} \cup Letters(r)

RECURSIVE SeqsUpTo(_, _)
SeqsUpTo(S, n) ==
    IF n = 0 THEN {<<>>}
    ELSE LET shorter == SeqsUpTo(S, n - 1)
         IN  shorter \cup {Append(t, c) : t \in {u \in shorter : Len(u) = n - 1}, c \in S}

Contents(r) == SeqsUpTo(Alphabet(r), MaxLen)

SpacedContents(r) == SeqsUpTo(SpacedAlphabet(r), MaxLen)

\* the most exec calls of one findPatternMatches call that are followed
MaxExec == MaxLen + 2

CatalogRules == {vulnerabilityPatterns[k] : k \in 1..NumRules}

\* a rule outside the catalog whose expression matches the empty string, /(?:)/g
EmptyPatternRule ==
    [type |-> "unsafe-eval", severity |-> "critical", pattern |-> << <<>> >>,
     message |-> "empty", description |-> "empty", recommendation |-> "empty",
     cweId |-> "CWE-95", owaspCategory |-> "A03:2021 - Injection",
     confidence |-> "low"]

\* a rule outside the catalog whose expression matches two characters, /ee/g
LongPatternRule ==
    [type |-> "unsafe-eval", severity |-> "critical", pattern |-> << <<"e", "e">> >>,
     message |-> "long", description |-> "long", recommendation |-> "long",
     cweId |-> "CWE-95", owaspCategory |-> "A03:2021 - Injection",
     confidence |-> "low"]

ScanIdle ==
    /\ fs = <<>> /\ spc = "idle" /\ jstsFiles = <<>> /\ idx = 0
    /\ issues = <<>> /\ filesScanned = 0
    /\ lastIndex = [k \in 1..NumRules |-> 0]
    /\ results = <<>> /\ thrown = 0 /\ consoleErrors = <<>>

\* the command not running and the panel just constructed
\* the two runs of the command that may overlap
Commands == {1, 2}

\* a run of the command not started: no token, no scanWorkspace call
NotRun ==
    [pc |-> "idle", cancelRequested |-> FALSE, jstsFiles |-> <<>>, idx |-> 0,
     issues |-> <<>>, filesScanned |-> 0, read |-> <<>>, result |-> <<>>]

CmdIdle ==
    /\ cpc = "idle" /\ cancelRequested = FALSE
    /\ scanResult = <<>> /\ treeEvents = 0 /\ panelCalls = <<>>
    /\ notifications = <<>> /\ reports = <<>>
    /\ calls = [c \in Commands |-> NotRun] /\ events = <<>> /\ edits = 0

RiskIdle ==
    /\ counts = [criticalCount |-> 0, highCount |-> 0, mediumCount |-> 0, lowCount |-> 0]
    /\ level = ""
    /\ dashSecurity = <<>> /\ dashComplexity = <<>> /\ overall = <<>>

LocIdle ==
    /\ content = <<>> /\ rule = vulnerabilityPatterns[1] /\ cursor = 0
    /\ found = <<>> /\ execLog = <<>> /\ lpc = "returned"

\* a call of findPatternMatches on some content with a catalog rule
LocInit ==
    /\ rule \in CatalogRules
    /\ content \in Contents(rule)
    /\ cursor = 0 /\ found = <<>> /\ execLog = <<>> /\ lpc = "enter"
    /\ ScanIdle /\ RiskIdle /\ CmdIdle

\* a call of findPatternMatches on some content with white space with a
\* catalog rule
PosInit ==
    /\ rule \in CatalogRules
    /\ content \in SpacedContents(rule)
    /\ cursor = 0 /\ found = <<>> /\ execLog = <<>> /\ lpc = "enter"
    /\ ScanIdle /\ RiskIdle /\ CmdIdle

\* a call of findPatternMatches on some content with any rule
AnyInit ==
    /\ rule \in CatalogRules \cup {EmptyPatternRule, LongPatternRule}
    /\ content \in Contents(rule)
    /\ cursor = 0 /\ found = <<>> /\ execLog = <<>> /\ lpc = "enter"
    /\ ScanIdle /\ RiskIdle /\ CmdIdle

\* lines 332-335: the empty issue list and the reset of the cursor
EnterFindPatternMatches ==
    /\ lpc = "enter"
    /\ found' = <<>>
    /\ cursor' = 0
    /\ lpc' = "loop"
    /\ UNCHANGED <<content, rule, execLog, scanVars, riskVars, cmdVars>>

\* what one iteration records of its match
LogEntry(index, emitted) ==
    [index |-> index, line |-> LineNumber(content, index),
     column |-> Column(content, index), emitted |-> emitted]

\* lines 338-365: exec matches outside a comment and the issue is pushed
ExecMatchPush ==
    /\ lpc = "loop"
    /\ Len(execLog) < MaxExec
    /\ LET m == Exec(rule.pattern, content, cursor)
       IN  /\ m.matched
           /\ ~Suppressed(content, m.index)
           /\ cursor' = m.lastIndex
           /\ found' = Append(found, MakeIssue(content, rule, m.index))
           /\ execLog' = Append(execLog, LogEntry(m.index, TRUE))
    /\ UNCHANGED <<content, rule, lpc, scanVars, riskVars, cmdVars>>

\* lines 338-351: exec matches inside a comment and the loop continues
ExecMatchSkip ==
    /\ lpc = "loop"
    /\ Len(execLog) < MaxExec
    /\ LET m == Exec(rule.pattern, content, cursor)
       IN  /\ m.matched
           /\ Suppressed(content, m.index)
           /\ cursor' = m.lastIndex
           /\ execLog' = Append(execLog, LogEntry(m.index, FALSE))
    /\ UNCHANGED <<content, rule, found, lpc, scanVars, riskVars, cmdVars>>

\* lines 338, 368: exec returns null and the issues are returned
ExecNullReturn ==
    /\ lpc = "loop"
    /\ LET m == Exec(rule.pattern, content, cursor)
       IN  /\ ~m.matched
           /\ cursor' = m.lastIndex
    /\ lpc' = "returned"
    /\ UNCHANGED <<content, rule, found, execLog, scanVars, riskVars, cmdVars>>

LocNext ==
    \/ EnterFindPatternMatches
    \/ ExecMatchPush
    \/ ExecMatchSkip
    \/ ExecNullReturn

\* findPatternMatches on every content up to MaxLen with every catalog rule
SpecLocate == LocInit /\ [][LocNext]_vars

\* the same on the contents with white space
SpecPosition == PosInit /\ [][LocNext]_vars

\* the same with rules outside the catalog
SpecAnyPattern == AnyInit /\ [][LocNext]_vars

\* ------------------------------------------------------ scans of a workspace
\* the file contents of the workspace specification: an empty file, two
\* critical matches of one rule on two lines with a medium match, a medium
\* and a critical match on two lines, a high and a low match, a match after
\* `//`, and a text two rules match
WsContents ==
    { <<>>, <<"e", "\n", "e", "r">>, <<"r", "\n", "e">>, <<"h", "i">>,
      <<"/", "/", "e">>, <<"x">> }

\* the lower-cased extensions of the workspace files
WsExts == {".ts", ".md"}

\* a file of the workspace: its text, whether reading it succeeds, and
\* path.extname(filePath).toLowerCase()
WsFiles == [content : WsContents, readable : BOOLEAN, ext : WsExts]

\* a scanner just constructed (lines 23-26) in a workspace of up to MaxFiles files
Init ==
    /\ fs \in SeqsUpTo(WsFiles, MaxFiles)
    /\ spc = "idle" /\ jstsFiles = <<>> /\ idx = 0
    /\ issues = <<>> /\ filesScanned = 0
    /\ lastIndex = [k \in 1..NumRules |-> 0]
    /\ results = <<>> /\ thrown = 0 /\ consoleErrors = <<>>
    /\ LocIdle /\ RiskIdle /\ CmdIdle

\* lines 245-255: scanWorkspace is called and awaits the file collector
scanWorkspaceCalled ==
    /\ spc = "idle"
    /\ Len(results) + thrown < MaxScans
    /\ issues' = <<>>
    /\ jstsFiles' = <<>>
    /\ idx' = 0
    /\ filesScanned' = 0
    /\ spc' = "collect"
    /\ UNCHANGED <<fs, lastIndex, results, thrown, consoleErrors>>

\* a call of scanWorkspace by itself
StartScan == scanWorkspaceCalled /\ UNCHANGED <<locVars, riskVars, cmdVars>>

\* lines 255-265: the collector returns the files and they are filtered
CollectFiles ==
    /\ spc = "collect"
    /\ jstsFiles' = FilterJsTs(fs, 1)
    /\ filesScanned' = 0
    /\ idx' = 1
    /\ spc' = "loop"
    /\ UNCHANGED <<fs, issues, lastIndex, results, thrown, consoleErrors, locVars, riskVars, cmdVars>>

\* lines 255, 298-301: the collector fails and scanWorkspace rethrows
scanWorkspaceRethrows ==
    /\ spc = "collect"
    /\ thrown' = thrown + 1
    /\ spc' = "idle"
    /\ UNCHANGED <<fs, jstsFiles, idx, issues, filesScanned, lastIndex, results,
                   consoleErrors>>

\* the failure of a scan called by itself
CollectFails == scanWorkspaceRethrows /\ UNCHANGED <<locVars, riskVars, cmdVars>>

\* the iteration that puts the issues of the file before those found so far
ScanNextFile_NewestFirst ==
    /\ spc = "loop"
    /\ idx <= Len(jstsFiles)
    /\ \E r \in {scanFile(fs[jstsFiles[idx]], jstsFiles[idx], lastIndex)} :
           /\ lastIndex' = r.lastIndex
           /\ consoleErrors' = IF r.logged THEN Append(consoleErrors, jstsFiles[idx])
                                ELSE consoleErrors
           /\ IF r.threw
              THEN UNCHANGED <<issues, filesScanned>>
              ELSE /\ issues' = r.issues \o issues
                   /\ filesScanned' = filesScanned + 1
    /\ idx' = idx + 1
    /\ UNCHANGED <<fs, spc, jstsFiles, results, thrown, locVars, riskVars, cmdVars>>

\* the iteration that keeps the issues of the file in place of those found
\* so far
ScanNextFile_KeepsLastFile ==
    /\ spc = "loop"
    /\ idx <= Len(jstsFiles)
    /\ \E r \in {scanFile(fs[jstsFiles[idx]], jstsFiles[idx], lastIndex)} :
           /\ lastIndex' = r.lastIndex
           /\ consoleErrors' = IF r.logged THEN Append(consoleErrors, jstsFiles[idx])
                                ELSE consoleErrors
           /\ IF r.threw
              THEN UNCHANGED <<issues, filesScanned>>
              ELSE /\ issues' = r.issues
                   /\ filesScanned' = filesScanned + 1
    /\ idx' = idx + 1
    /\ UNCHANGED <<fs, spc, jstsFiles, results, thrown, locVars, riskVars, cmdVars>>

\* the iteration that counts a file only when it has issues
ScanNextFile_CountsFilesWithIssues ==
    /\ spc = "loop"
    /\ idx <= Len(jstsFiles)
    /\ \E r \in {scanFile(fs[jstsFiles[idx]], jstsFiles[idx], lastIndex)} :
           /\ lastIndex' = r.lastIndex
           /\ consoleErrors' = IF r.logged THEN Append(consoleErrors, jstsFiles[idx])
                                ELSE consoleErrors
           /\ IF r.threw
              THEN UNCHANGED <<issues, filesScanned>>
              ELSE /\ issues' = issues \o r.issues
                   /\ filesScanned' = filesScanned + (IF r.issues = <<>> THEN 0 ELSE 1)
    /\ idx' = idx + 1
    /\ UNCHANGED <<fs, spc, jstsFiles, results, thrown, locVars, riskVars, cmdVars>>

\* lines 266-278: one iteration of the loop over jstsFiles
ScanNextFile ==
    /\ spc = "loop"
    /\ idx <= Len(jstsFiles)
    /\ \E r \in {scanFile(fs[jstsFiles[idx]], jstsFiles[idx], lastIndex)} :
           /\ lastIndex' = r.lastIndex
           /\ consoleErrors' = IF r.logged THEN Append(consoleErrors, jstsFiles[idx])
                                ELSE consoleErrors
           /\ IF r.threw
              THEN UNCHANGED <<issues, filesScanned>>
              ELSE /\ issues' = issues \o r.issues
                   /\ filesScanned' = filesScanned + 1
    /\ idx' = idx + 1
    /\ UNCHANGED <<fs, spc, jstsFiles, results, thrown, locVars, riskVars, cmdVars>>

\* lines 280-296: the result is built and returned
scanWorkspaceReturns ==
    /\ spc = "loop"
    /\ idx > Len(jstsFiles)
    /\ results' = Append(results, MakeResult(issues, filesScanned))
    /\ spc' = "idle"
    /\ UNCHANGED <<fs, jstsFiles, idx, issues, filesScanned, lastIndex, thrown,
                   consoleErrors>>

\* the return of a scan called by itself
FinishScan == scanWorkspaceReturns /\ UNCHANGED <<locVars, riskVars, cmdVars>>

Next ==
    \/ StartScan
    \/ CollectFiles
    \/ CollectFails
    \/ ScanNextFile
    \/ FinishScan

\* up to MaxScans scans, one after the other, of an unchanged workspace
Spec == Init /\ [][Next]_vars

\* ------------------------------------------------------ the Security panel
\* SecurityActionsProvider.refresh: the tree-change event fires once
refresh == treeEvents' = treeEvents + 1

\* updateResults that adds the issues of the new result to those stored
updateResults_Merges(result) ==
    /\ scanResult' = IF scanResult = <<>> THEN <<result>>
                     ELSE << [result EXCEPT !.issues = scanResult[1].issues \o @] >>
    /\ refresh
    /\ panelCalls' = Append(panelCalls, [op |-> "updateResults", arg |-> <<result>>])

\* SecurityActionsProvider.updateResults
updateResults(result) ==
    /\ scanResult' = <<result>>
    /\ refresh
    /\ panelCalls' = Append(panelCalls, [op |-> "updateResults", arg |-> <<result>>])

\* SecurityActionsProvider.clearResults
clearResults ==
    /\ scanResult' = <<>>
    /\ refresh
    /\ panelCalls' = Append(panelCalls, [op |-> "clearResults", arg |-> <<>>])

\* SecurityActionsProvider.getResults: <<>> for null
getResults == scanResult

\* a SecurityTreeItem: its contextValue as kind ("info", "summary", "group"
\* or "issue") and, for `<severity>-group`, the severity; the issue of its
\* command's arguments, <<>> when it has none
SecurityTreeItem(kind, severity, issue) ==
    [kind |-> kind, severity |-> severity, issue |-> issue]

\* the order of the severity groups at the root
GroupOrder == <<"critical", "high", "medium", "low">>

\* scanResult.criticalCount, highCount, mediumCount or lowCount
CountField(result, sev) ==
    CASE sev = "critical" -> result.criticalCount [] sev = "high" -> result.highCount
      [] sev = "medium" -> result.mediumCount [] sev = "low" -> result.lowCount

\* the items of a group: scanResult.issues.filter(...).map(...)
IssueItems(result, sev) ==
    LET kept == SelectSeq(result.issues, LAMBDA i : i.severity = sev)
    IN  [j \in 1..Len(kept) |-> SecurityTreeItem("issue", "", <<kept[j]>>)]

\* getChildren that shows no group for the low issues
getChildren_WithoutLowGroup(element) ==
    IF (IF scanResult = <<>> THEN TRUE ELSE scanResult[1].totalIssues = 0)
    THEN << SecurityTreeItem("info", "", <<>>) >>
    ELSE IF element = <<>>
    THEN << SecurityTreeItem("summary", "", <<>>) >>
         \o [j \in 1..Len(SelectSeq(SubSeq(GroupOrder, 1, 3),
                                    LAMBDA s : CountField(scanResult[1], s) > 0)) |->
                SecurityTreeItem("group",
                    SelectSeq(SubSeq(GroupOrder, 1, 3),
                              LAMBDA s : CountField(scanResult[1], s) > 0)[j], <<>>)]
    ELSE IF element[1].kind = "group"
    THEN IssueItems(scanResult[1], element[1].severity)
    ELSE <<>>

\* SecurityActionsProvider.getChildren; element is <<>> for the root and
\* <<item>> for an item of the tree
getChildren(element) ==
    IF (IF scanResult = <<>> THEN TRUE ELSE scanResult[1].totalIssues = 0)
    THEN << SecurityTreeItem("info", "", <<>>) >>
    ELSE IF element = <<>>
    THEN << SecurityTreeItem("summary", "", <<>>) >>
         \o [j \in 1..Len(SelectSeq(GroupOrder,
                                    LAMBDA s : CountField(scanResult[1], s) > 0)) |->
                SecurityTreeItem("group",
                    SelectSeq(GroupOrder,
                              LAMBDA s : CountField(scanResult[1], s) > 0)[j], <<>>)]
    ELSE IF element[1].kind = "group"
    THEN IssueItems(scanResult[1], element[1].severity)
    ELSE <<>>

\* ------------------------------------------------ the scanSecurity command
\* the file contents of the command specification: an empty file, a high
\* and a low match, and two critical matches with a medium match
CmdContents == { <<>>, <<"h", "i">>, <<"e", "\n", "e", "r">> }

\* the files of the command specification: readable TypeScript files
CmdFiles == [content : CmdContents, readable : {TRUE}, ext : {".ts"}]

\* the extension just activated in a workspace of up to MaxFiles files
CmdInit ==
    /\ fs \in SeqsUpTo(CmdFiles, MaxFiles)
    /\ spc = "idle" /\ jstsFiles = <<>> /\ idx = 0
    /\ issues = <<>> /\ filesScanned = 0
    /\ lastIndex = [k \in 1..NumRules |-> 0]
    /\ results = <<>> /\ thrown = 0 /\ consoleErrors = <<>>
    /\ LocIdle /\ RiskIdle /\ CmdIdle

\* the command is run: withProgress hands it a fresh token and it calls
\* scanWorkspace, without the token
ScanSecurityCommand ==
    /\ cpc = "idle"
    /\ scanWorkspaceCalled
    /\ cpc' = "scanning"
    /\ cancelRequested' = FALSE
    /\ UNCHANGED <<scanResult, treeEvents, panelCalls, notifications, reports,
                   locVars, riskVars, ovVars>>

\* the user cancels the progress notification while the command awaits the scan
Cancel ==
    /\ cpc = "scanning"
    /\ ~cancelRequested
    /\ cancelRequested' = TRUE
    /\ UNCHANGED <<cpc, scanResult, treeEvents, panelCalls, notifications, reports,
                   scanVars, locVars, riskVars, ovVars>>

\* the command that publishes the result whether or not it was cancelled
CommandDiscardsCancelled_Publishes ==
    /\ cpc = "scanning"
    /\ cancelRequested
    /\ scanWorkspaceReturns
    /\ updateResults(results'[Len(results')])
    /\ notifications' = Append(notifications,
                               IF results'[Len(results')].totalIssues = 0
                               THEN "clean" ELSE "found")
    /\ cpc' = "idle"
    /\ UNCHANGED <<cancelRequested, reports, locVars, riskVars, ovVars>>

\* scanWorkspace returns after the cancellation was requested: the command
\* returns at once
CommandDiscardsCancelled ==
    /\ cpc = "scanning"
    /\ cancelRequested
    /\ scanWorkspaceReturns
    /\ cpc' = "idle"
    /\ UNCHANGED <<cancelRequested, scanResult, treeEvents, panelCalls, notifications,
                   reports, locVars, riskVars, ovVars>>

\* scanWorkspace returns with no cancellation requested: the result goes to
\* the panel and the information or the warning message is shown
CommandPublishes ==
    /\ cpc = "scanning"
    /\ ~cancelRequested
    /\ scanWorkspaceReturns
    /\ updateResults(results'[Len(results')])
    /\ notifications' = Append(notifications,
                               IF results'[Len(results')].totalIssues = 0
                               THEN "clean" ELSE "found")
    /\ cpc' = "idle"
    /\ UNCHANGED <<cancelRequested, reports, locVars, riskVars, ovVars>>

\* scanWorkspace throws: the command shows the error message
CommandScanFails ==
    /\ cpc = "scanning"
    /\ scanWorkspaceRethrows
    /\ notifications' = Append(notifications, "failed")
    /\ cpc' = "idle"
    /\ UNCHANGED <<cancelRequested, scanResult, treeEvents, panelCalls, reports,
                   locVars, riskVars, ovVars>>

CmdNext ==
    \/ ScanSecurityCommand
    \/ Cancel
    \/ CollectFiles
    \/ ScanNextFile
    \/ CommandScanFails
    \/ CommandDiscardsCancelled
    \/ CommandPublishes

\* up to MaxScans runs of the command, one after the other, each of which
\* the user may cancel at any point of the scan
SpecCommand == CmdInit /\ [][CmdNext]_vars

\* ------------------------------------------- the calls of the Security panel
\* the file contents of the panel specification: those of the command
\* specification, a low match, and five high matches
PanelContents == CmdContents \cup { <<"i">>, <<"h", "h", "h", "h", "h">> }

\* the results of the scans of the workspaces of one file of PanelContents
PanelResults ==
    {MakeResult(ScanRules(c, 1, 1, [k \in 1..NumRules |-> 0], <<>>).issues, 1) :
        c \in PanelContents}

\* the extension just activated
PanelInit == ScanIdle /\ LocIdle /\ RiskIdle /\ CmdIdle

\* a run of the scanSecurity command, not cancelled, ends: the result of the
\* scan of the workspace as it then is goes to the panel
PublishScanResult ==
    /\ Len(notifications) < MaxCalls
    /\ \E r \in PanelResults :
           /\ updateResults(r)
           /\ notifications' = Append(notifications,
                                      IF r.totalIssues = 0 THEN "clean" ELSE "found")
    /\ UNCHANGED <<cpc, cancelRequested, reports, scanVars, locVars, riskVars, ovVars>>

\* the clearSecurityResults command
ClearSecurityResultsCommand ==
    /\ Len(notifications) < MaxCalls
    /\ clearResults
    /\ notifications' = Append(notifications, "cleared")
    /\ UNCHANGED <<cpc, cancelRequested, reports, scanVars, locVars, riskVars, ovVars>>

\* SecurityReportGenerator.generateSecurityReport: the report written for
\* the result, with the risk level of its summary
generateSecurityReport(result) ==
    [riskLevel |-> calculateRiskLevel(result), result |-> result]

\* the test that lets a stored result without issues through
NoResultsToReport_NullOnly == getResults = <<>>

\* !results || results.totalIssues === 0
NoResultsToReport ==
    IF getResults = <<>> THEN TRUE ELSE getResults[1].totalIssues = 0

\* the generateSecurityReport command with no stored result or a stored
\* result without issues: the warning is shown
GenerateReportRefused ==
    /\ Len(notifications) < MaxCalls
    /\ NoResultsToReport
    /\ notifications' = Append(notifications, "no-results")
    /\ UNCHANGED <<cpc, cancelRequested, scanResult, treeEvents, panelCalls, reports,
                   scanVars, locVars, riskVars, ovVars>>

\* the generateSecurityReport command with a stored result that has issues:
\* the report is written and the success message is shown
GenerateReportWritten ==
    /\ Len(notifications) < MaxCalls
    /\ ~NoResultsToReport
    /\ reports' = Append(reports, generateSecurityReport(getResults[1]))
    /\ notifications' = Append(notifications, "report-generated")
    /\ UNCHANGED <<cpc, cancelRequested, scanResult, treeEvents, panelCalls,
                   scanVars, locVars, riskVars, ovVars>>

PanelNext ==
    \/ PublishScanResult
    \/ ClearSecurityResultsCommand
    \/ GenerateReportRefused
    \/ GenerateReportWritten

\* up to MaxCalls scan, clear and report commands, in any order
SpecPanel == PanelInit /\ [][PanelNext]_vars

\* ------------------------------------- two scanSecurity commands at once
\* the step of run c recorded in the history
Event(c, what) == [cmd |-> c, what |-> what]

\* run o has read a file and has another file to read
BetweenReads(o) ==
    /\ calls[o].pc = "loop"
    /\ 1 < calls[o].idx /\ calls[o].idx <= Len(calls[o].jstsFiles)

\* the file contents of the overlap specification: a high and a low match,
\* and two critical matches with a medium match
OvContents == { <<"h", "i">>, <<"e", "\n", "e", "r">> }

\* the files of the overlap specification: readable TypeScript files
OvFiles == [content : OvContents, readable : {TRUE}, ext : {".ts"}]

\* the workspaces of the overlap specification: no file, one file, two files
OvWorkspaces ==
    {<<>>} \cup {<<f>> : f \in OvFiles} \cup {<<f, g>> : f \in OvFiles, g \in OvFiles}

\* the extension just activated in one of these workspaces
OvInit ==
    /\ fs \in OvWorkspaces
    /\ spc = "idle" /\ jstsFiles = <<>> /\ idx = 0
    /\ issues = <<>> /\ filesScanned = 0
    /\ lastIndex = [k \in 1..NumRules |-> 0]
    /\ results = <<>> /\ thrown = 0 /\ consoleErrors = <<>>
    /\ LocIdle /\ RiskIdle /\ CmdIdle

\* run c of the command starts: withProgress hands it a fresh token and it
\* calls scanWorkspace, which makes its own empty issue list and awaits the
\* file collector
OvScanSecurityCommand(c) ==
    /\ calls[c].pc = "idle"
    /\ calls' = [calls EXCEPT ![c].pc = "collect", ![c].issues = <<>>]
    /\ events' = Append(events, Event(c, "started"))
    /\ UNCHANGED <<edits, cpc, cancelRequested, scanResult, treeEvents, panelCalls,
                   notifications, reports, scanVars, locVars, riskVars>>

\* the user cancels the progress notification of run c
OvCancel(c) ==
    /\ calls[c].pc \in {"collect", "loop"}
    /\ ~calls[c].cancelRequested
    /\ calls' = [calls EXCEPT ![c].cancelRequested = TRUE]
    /\ UNCHANGED <<events, edits, cpc, cancelRequested, scanResult, treeEvents,
                   panelCalls, notifications, reports, scanVars, locVars, riskVars>>

\* a file of the workspace is saved with another text
EditFile ==
    /\ edits < MaxEdits
    /\ \E i \in 1..Len(fs), t \in OvContents :
           /\ t # fs[i].content
           /\ fs' = [fs EXCEPT ![i].content = t]
    /\ edits' = edits + 1
    /\ UNCHANGED <<calls, events, cpc, cancelRequested, scanResult, treeEvents,
                   panelCalls, notifications, reports, spc, jstsFiles, idx, issues,
                   filesScanned, lastIndex, results, thrown, consoleErrors, locVars,
                   riskVars>>

\* securityScanner.ts lines 255-265 in run c: the collector returns the
\* files and they are filtered
OvCollectFiles(c) ==
    /\ calls[c].pc = "collect"
    /\ calls' = [calls EXCEPT ![c].pc = "loop", ![c].jstsFiles = FilterJsTs(fs, 1),
                              ![c].filesScanned = 0, ![c].idx = 1]
    /\ UNCHANGED <<events, edits, cpc, cancelRequested, scanResult, treeEvents,
                   panelCalls, notifications, reports, scanVars, locVars, riskVars>>

\* the collector of run c fails, scanWorkspace rethrows and the command
\* shows the error message
OvCommandScanFails(c) ==
    /\ calls[c].pc = "collect"
    /\ calls' = [calls EXCEPT ![c].pc = "done"]
    /\ notifications' = Append(notifications, "failed")
    /\ events' = Append(events, Event(c, "failed"))
    /\ UNCHANGED <<edits, cpc, cancelRequested, scanResult, treeEvents, panelCalls,
                   reports, scanVars, locVars, riskVars>>

\* the iteration that pushes the issues of the file on one list of the
\* scanner instance, that of run 1
OvScanNextFile_SharedList(c) ==
    /\ calls[c].pc = "loop"
    /\ calls[c].idx <= Len(calls[c].jstsFiles)
    /\ \E j \in {calls[c].jstsFiles[calls[c].idx]} :
       \E r \in {scanFile(fs[j], j, lastIndex)} :
           /\ lastIndex' = r.lastIndex
           /\ consoleErrors' = IF r.logged THEN Append(consoleErrors, j)
                                ELSE consoleErrors
           /\ calls' = [calls EXCEPT ![c].filesScanned = @ + 1,
                                     ![c].read = Append(@, fs[j]),
                                     ![c].idx = @ + 1,
                                     ![1].issues = @ \o r.issues]
    /\ events' = IF \E o \in Commands \ {c} : BetweenReads(o)
                 THEN Append(events, Event(c, "between")) ELSE events
    /\ UNCHANGED <<edits, cpc, cancelRequested, scanResult, treeEvents, panelCalls,
                   notifications, reports, fs, spc, jstsFiles, idx, issues,
                   filesScanned, results, thrown, locVars, riskVars>>

\* securityScanner.ts lines 266-278 in run c: the read of the next file
\* resolves, the file is matched against every rule without yielding, and
\* its issues are pushed on the list of this call
OvScanNextFile(c) ==
    /\ calls[c].pc = "loop"
    /\ calls[c].idx <= Len(calls[c].jstsFiles)
    /\ \E j \in {calls[c].jstsFiles[calls[c].idx]} :
       \E r \in {scanFile(fs[j], j, lastIndex)} :
           /\ lastIndex' = r.lastIndex
           /\ consoleErrors' = IF r.logged THEN Append(consoleErrors, j)
                                ELSE consoleErrors
           /\ calls' = [calls EXCEPT ![c].filesScanned = @ + 1,
                                     ![c].read = Append(@, fs[j]),
                                     ![c].idx = @ + 1,
                                     ![c].issues = @ \o r.issues]
    /\ events' = IF \E o \in Commands \ {c} : BetweenReads(o)
                 THEN Append(events, Event(c, "between")) ELSE events
    /\ UNCHANGED <<edits, cpc, cancelRequested, scanResult, treeEvents, panelCalls,
                   notifications, reports, fs, spc, jstsFiles, idx, issues,
                   filesScanned, results, thrown, locVars, riskVars>>

\* the result scanWorkspace of run c returns (lines 280-296)
OvResult(c) == MakeResult(calls[c].issues, calls[c].filesScanned)

\* scanWorkspace of run c returns after the cancellation was requested: the
\* command returns at once
OvCommandDiscardsCancelled(c) ==
    /\ calls[c].pc = "loop"
    /\ calls[c].idx > Len(calls[c].jstsFiles)
    /\ calls[c].cancelRequested
    /\ calls' = [calls EXCEPT ![c].pc = "done", ![c].result = <<OvResult(c)>>]
    /\ events' = Append(events, Event(c, "discarded"))
    /\ UNCHANGED <<edits, cpc, cancelRequested, scanResult, treeEvents, panelCalls,
                   notifications, reports, scanVars, locVars, riskVars>>

\* the command that leaves a result already in the panel where it is
OvCommandPublishes_KeepsFirst(c) ==
    /\ calls[c].pc = "loop"
    /\ calls[c].idx > Len(calls[c].jstsFiles)
    /\ ~calls[c].cancelRequested
    /\ calls' = [calls EXCEPT ![c].pc = "done", ![c].result = <<OvResult(c)>>]
    /\ IF scanResult = <<>>
       THEN updateResults(OvResult(c))
       ELSE UNCHANGED <<scanResult, treeEvents, panelCalls>>
    /\ notifications' = Append(notifications,
                               IF OvResult(c).totalIssues = 0 THEN "clean" ELSE "found")
    /\ events' = Append(events, Event(c, "published"))
    /\ UNCHANGED <<edits, cpc, cancelRequested, reports, scanVars, locVars, riskVars>>

\* scanWorkspace of run c returns with no cancellation requested: the result
\* goes to the panel and the information or the warning message is shown
OvCommandPublishes(c) ==
    /\ calls[c].pc = "loop"
    /\ calls[c].idx > Len(calls[c].jstsFiles)
    /\ ~calls[c].cancelRequested
    /\ calls' = [calls EXCEPT ![c].pc = "done", ![c].result = <<OvResult(c)>>]
    /\ updateResults(OvResult(c))
    /\ notifications' = Append(notifications,
                               IF OvResult(c).totalIssues = 0 THEN "clean" ELSE "found")
    /\ events' = Append(events, Event(c, "published"))
    /\ UNCHANGED <<edits, cpc, cancelRequested, reports, scanVars, locVars, riskVars>>

OvNext ==
    \/ \E c \in Commands : OvScanSecurityCommand(c)
    \/ \E c \in Commands : OvCancel(c)
    \/ EditFile
    \/ \E c \in Commands : OvCollectFiles(c)
    \/ \E c \in Commands : OvCommandScanFails(c)
    \/ \E c \in Commands : OvScanNextFile(c)
    \/ \E c \in Commands : OvCommandDiscardsCancelled(c)
    \/ \E c \in Commands : OvCommandPublishes(c)

\* two runs of the command on one scanner and one panel, interleaved at
\* their await points, while up to MaxEdits files are edited
SpecOverlap == OvInit /\ [][OvNext]_vars

\* --------------------------------------------------------- risk classifier
\* a result with any severity counts up to MaxCount, not yet classified
RiskInit ==
    /\ counts \in [criticalCount : 0..MaxCount, highCount : 0..MaxCount,
                   mediumCount : 0..MaxCount, lowCount : 0..MaxCount]
    /\ level = ""
    /\ dashSecurity = <<>> /\ dashComplexity = <<>> /\ overall = <<>>
    /\ ScanIdle /\ LocIdle /\ CmdIdle

\* the report generator classifies the result
CalculateRiskLevel ==
    /\ level = ""
    /\ level' = calculateRiskLevel(counts)
    /\ UNCHANGED <<counts, dashSecurity, dashComplexity, overall, scanVars, locVars,
                   cmdVars>>

RiskNext == CalculateRiskLevel

SpecRisk == RiskInit /\ [][RiskNext]_vars

\* ------------------------------------------------------- dashboard health
\* the values of ComplexityHeatmapData.averageComplexity: a rounded mean of
\* scores from 0 to 100
AverageComplexities == 0..100

\* Math.max and Math.min
MathMax(a, b) == IF a >= b THEN a ELSE b
MathMin(a, b) == IF a <= b THEN a ELSE b

\* lines 124-129: the points taken off for the security result, none when
\* there is no result
securityPenalty(security) ==
    IF security = <<>> THEN 0
    ELSE security[1].criticalCount * 20 + security[1].highCount * 10
         + security[1].mediumCount * 5 + security[1].lowCount * 1

\* lines 132-143: the points taken off for the complexity data, none when
\* there is no data
complexityPenalty(complexity) ==
    IF complexity = <<>> THEN 0
    ELSE LET avgComplexity == complexity[1].averageComplexity
         IN (IF avgComplexity > 70 THEN 30
             ELSE IF avgComplexity > 50 THEN 15
             ELSE IF avgComplexity > 30 THEN 5
             ELSE 0)
            + complexity[1].highComplexityFiles * 2

\* lines 147-157: the grade of a clamped score
gradeOf(score) ==
    IF score >= 90 THEN "A+"
    ELSE IF score >= 85 THEN "A"
    ELSE IF score >= 80 THEN "A-"
    ELSE IF score >= 75 THEN "B+"
    ELSE IF score >= 70 THEN "B"
    ELSE IF score >= 65 THEN "B-"
    ELSE IF score >= 60 THEN "C+"
    ELSE IF score >= 55 THEN "C"
    ELSE IF score >= 50 THEN "C-"
    ELSE IF score >= 45 THEN "D"
    ELSE "F"

\* line 145 without its lower limit
calculateOverallHealth_NoFloor(security, complexity) ==
    LET score == MathMin(100, 100 - securityPenalty(security)
                              - complexityPenalty(complexity))
    IN [overallGrade |-> gradeOf(score), overallScore |-> score]

\* lines 117-160: every term is an integer, so Math.round returns the score
calculateOverallHealth(security, complexity) ==
    LET score == MathMax(0, MathMin(100, 100 - securityPenalty(security)
                                         - complexityPenalty(complexity)))
    IN [overallGrade |-> gradeOf(score), overallScore |-> score]

\* the dashboard is asked for the health of some security result, or none,
\* and some complexity data, or none
HealthInit ==
    /\ dashSecurity \in {<<>>} \cup
           { <<c>> : c \in [criticalCount : 0..MaxSevere, highCount : 0..MaxSevere,
                             mediumCount : 0..MaxSevere, lowCount : 0..MaxLow] }
    /\ dashComplexity \in {<<>>} \cup
           { <<d>> : d \in [averageComplexity : AverageComplexities,
                             highComplexityFiles : 0..MaxFiles] }
    /\ overall = <<>>
    /\ counts = [criticalCount |-> 0, highCount |-> 0, mediumCount |-> 0, lowCount |-> 0]
    /\ level = ""
    /\ ScanIdle /\ LocIdle /\ CmdIdle

\* the dashboard computes the health
CalculateOverallHealth ==
    /\ overall = <<>>
    /\ overall' = <<calculateOverallHealth(dashSecurity, dashComplexity)>>
    /\ UNCHANGED <<counts, level, dashSecurity, dashComplexity, scanVars, locVars,
                   cmdVars>>

HealthNext == CalculateOverallHealth

SpecHealth == HealthInit /\ [][HealthNext]_vars

\* ------------------------------------------------ claims: match positions
\* the offsets of text where rule rl matches outside a comment
NonSuppressedMatches(text, rl) ==
    {i \in 0..(Len(text) - 1) :
        MatchAt(rl.pattern, text, i) > 0 /\ ~Suppressed(text, i)}

\* the elements of a sequence
SeqRange(q) == {q[i] : i \in 1..Len(q)}

\* the line of a logged match and the match's 0-based offset in that line
EntryLine(m) == LineContent(content, m.line)

EntryOffset(m) == m.column - 1

\* an issue of the call lies at the position of the logged match
IssueAt(m) ==
    \E i \in 1..Len(found) : found[i].line = m.line /\ found[i].column = m.column

\* a `//` ends before the match begins, on the match's line
SlashSlashBefore(m) ==
    \E s \in 0..(EntryOffset(m) - 2) :
        EntryLine(m)[s + 1] = "/" /\ EntryLine(m)[s + 2] = "/"

\* a `//` begins before the match does, on the match's line
SlashSlashStartsBefore(m) ==
    \E s \in 0..(EntryOffset(m) - 1) :
        EntryLine(m)[s + 1] = "/" /\ EntryLine(m)[s + 2] = "/"

\* a `//` begins after the match does, on the match's line
SlashSlashStartsAfter(m) ==
    \E s \in (EntryOffset(m) + 1)..(Len(EntryLine(m)) - 2) :
        EntryLine(m)[s + 1] = "/" /\ EntryLine(m)[s + 2] = "/"

\* a `/*` begins before the match does, on the match's line
OpenerStartsBefore(m) ==
    \E s \in 0..(EntryOffset(m) - 1) :
        EntryLine(m)[s + 1] = "/" /\ EntryLine(m)[s + 2] = "*"

\* the first "/" of the content opens a block comment on a line before the
\* match's, and no `*/` closes it before the match
PriorLineOpenBlock(m) ==
    \E o \in 0..(m.index - 2) :
        /\ content[o + 1] = "/" /\ content[o + 2] = "*"
        /\ \A j \in 1..o : content[j] # "/"
        /\ LineNumber(content, o) < m.line
        /\ ~\E c \in (o + 2)..(m.index - 2) :
               content[c + 1] = "*" /\ content[c + 2] = "/"

\* C6: every issue's line, and the line computed for any offset from 0 to
\* the content length, lies between 1 and the number of '\n'-separated lines
\* of the content.
C6_LineWithinFile ==
    /\ \A i \in 1..Len(found) : found[i].line \in 1..Len(Split(content))
    /\ \A off \in 0..Len(content) :
           LineNumber(content, off) \in 1..Len(Split(content))

\* C6 witness: an issue reported on the last line of a file of three lines
C6_Witness ==
    /\ lpc = "returned"
    /\ Len(Split(content)) = 3
    /\ \E i \in 1..Len(found) : found[i].line = 3

\* C7: the match loop never matches the same offset twice: each match lies
\* after the one before it, and after a match the cursor is past its offset.
C7_CursorAdvances ==
    /\ \A i, j \in 1..Len(execLog) :
           i < j => execLog[i].index < execLog[j].index
    /\ (lpc = "loop" /\ execLog # <<>>) => cursor > execLog[Len(execLog)].index

\* C8: a match that begins after a `//` on its line produces no issue; a
\* match with no `//` and no `/*` beginning before it on its line produces
\* one.
C8_LineCommentSuppression ==
    \A k \in 1..Len(execLog) :
        /\ SlashSlashBefore(execLog[k]) => ~IssueAt(execLog[k])
        /\ (~SlashSlashStartsBefore(execLog[k]) /\ ~OpenerStartsBefore(execLog[k]))
               => IssueAt(execLog[k])

\* C8 witness: on one line, a reported match before a `//` and an
\* unreported match after it
C8_Witness ==
    /\ lpc = "returned"
    /\ \E k1, k2 \in 1..Len(execLog) :
           /\ execLog[k1].line = execLog[k2].line
           /\ SlashSlashStartsAfter(execLog[k1]) /\ IssueAt(execLog[k1])
           /\ SlashSlashBefore(execLog[k2]) /\ ~IssueAt(execLog[k2])

\* C9 as claimed: a match on a line after an unterminated `/*` of a prior
\* line, before the closing `*/`, produces no issue.
C9_BlockCommentAcrossLines ==
    \A k \in 1..Len(execLog) :
        PriorLineOpenBlock(execLog[k]) => ~IssueAt(execLog[k])

\* C9 amended: an unterminated `/*` on a prior line does not suppress a
\* match: the match produces an issue when no `//` and no `/*` begins
\* before it on its own line.
C9_BlockCommentLineLocal ==
    \A k \in 1..Len(execLog) :
        (/\ PriorLineOpenBlock(execLog[k])
         /\ ~SlashSlashStartsBefore(execLog[k])
         /\ ~OpenerStartsBefore(execLog[k]))
            => IssueAt(execLog[k])

\* C9 witness: an issue reported for a match inside a block comment opened
\* on the line before
C9_Witness ==
    /\ lpc = "returned"
    /\ \E k \in 1..Len(execLog) :
           PriorLineOpenBlock(execLog[k]) /\ IssueAt(execLog[k])

\* the severity and the CWE the catalog table of the specification fixes
\* for each kind that has a rule
KindTable ==
    [k \in SecurityVulnerabilityType
            \ {"xxe-vulnerability", "insecure-deserialization", "csrf-vulnerability"} |->
        CASE k = "hardcoded-secret" -> [severity |-> "critical", cweId |-> "CWE-798"]
          [] k = "sql-injection" -> [severity |-> "critical", cweId |-> "CWE-89"]
          [] k = "xss-vulnerability" -> [severity |-> "high", cweId |-> "CWE-79"]
          [] k = "command-injection" -> [severity |-> "critical", cweId |-> "CWE-78"]
          [] k = "path-traversal" -> [severity |-> "high", cweId |-> "CWE-22"]
          [] k = "unsafe-eval" -> [severity |-> "critical", cweId |-> "CWE-95"]
          [] k = "insecure-random" -> [severity |-> "medium", cweId |-> "CWE-330"]
          [] k = "weak-crypto" -> [severity |-> "high", cweId |-> "CWE-327"]
          [] k = "prototype-pollution" -> [severity |-> "high", cweId |-> "CWE-1321"]
          [] k = "open-redirect" -> [severity |-> "medium", cweId |-> "CWE-601"]
          [] k = "sensitive-data-exposure" -> [severity |-> "high", cweId |-> "CWE-532"]
          [] k = "cors-misconfiguration" -> [severity |-> "medium", cweId |-> "CWE-942"]
          [] k = "information-disclosure" -> [severity |-> "low", cweId |-> "CWE-209"]]

ReservedKinds == {"xxe-vulnerability", "insecure-deserialization", "csrf-vulnerability"}

\* the kinds that have a rule in the catalog
CatalogKinds == {vulnerabilityPatterns[k].type : k \in 1..NumRules}

NewlinesBefore(off) == Cardinality({j \in 1..off : content[j] = "\n"})

\* the 0-based index of the last line break before offset off, -1 when none
LastNewlineBefore(off) == Max({-1} \cup {j - 1 : j \in {h \in 1..off : content[h] = "\n"}})

\* the text of the physical line that holds offset off
PhysicalLine(off) ==
    LET ends == {j \in (off + 1)..Len(content) : content[j] = "\n"}
    IN  SubSeq(content, LastNewlineBefore(off) + 2,
               IF ends = {} THEN Len(content) ELSE Min(ends) - 1)

\* c is the text l without the white space at its two ends
IsTrimOf(c, l) ==
    /\ c = <<>> \/ (c[1] \notin Whitespace /\ c[Len(c)] \notin Whitespace)
    /\ \E a \in 0..(Len(l) - Len(c)) :
           /\ SubSeq(l, a + 1, a + Len(c)) = c
           /\ \A j \in (1..a) \cup ((a + Len(c) + 1)..Len(l)) : l[j] \in Whitespace

\* the offsets of the logged matches that were not in a comment, in order
EmittedOffsets ==
    LET e == SelectSeq(execLog, LAMBDA m : m.emitted)
    IN  [i \in 1..Len(e) |-> e[i].index]

\* C18: the issues of the call are, in order, those of the matches outside
\* comments; each has line 1 + the line breaks before the offset, column
\* the offset minus the index of the last line break before it (-1 when
\* none), at least 1, and as code the trimmed physical line; when the call
\* has returned, every occurrence outside a comment has exactly one issue, so
\* occurrences on different lines have different line numbers.
C18_PositionResolution ==
    /\ Len(found) = Len(EmittedOffsets)
    /\ \A i \in 1..Len(found) :
           LET off == EmittedOffsets[i]
           IN  /\ found[i].line = 1 + NewlinesBefore(off)
               /\ found[i].column = off - LastNewlineBefore(off)
               /\ found[i].column >= 1
               /\ IsTrimOf(found[i].code, PhysicalLine(off))
    /\ lpc = "returned" =>
           /\ SeqRange(EmittedOffsets) = NonSuppressedMatches(content, rule)
           /\ Len(found) = Cardinality(NonSuppressedMatches(content, rule))
           /\ \A i, j \in 1..Len(found) :
                  NewlinesBefore(EmittedOffsets[i]) # NewlinesBefore(EmittedOffsets[j])
                      => found[i].line # found[j].line

\* C18 witness: a call that returned two insecure-random issues on two
\* lines, one after leading white space that its code leaves out
C18_Witness ==
    /\ lpc = "returned"
    /\ rule.type = "insecure-random"
    /\ Len(found) = 2
    /\ found[1].line = 1 /\ found[2].line = 2
    /\ \E i \in 1..2 :
           /\ found[i].column > 1
           /\ found[i].code # PhysicalLine(EmittedOffsets[i])

\* the offsets in the match's line of the `/*` that end before the match begins
OpenersBefore(m) ==
    {s \in 0..(EntryOffset(m) - 2) :
        EntryLine(m)[s + 1] = "/" /\ EntryLine(m)[s + 2] = "*"}

\* the offsets in the match's line of the `*/` that begin at offset from or
\* later and end before the match begins
ClosersBetween(m, from) ==
    {c \in from..(EntryOffset(m) - 2) :
        EntryLine(m)[c + 1] = "*" /\ EntryLine(m)[c + 2] = "/"}

\* C25 as claimed: a match with a `/*` before it on its line and no `*/`
\* between that `/*` and the match produces no issue; a match with a `*/`
\* after the last `/*` before it on its line, and no `//` before it on the
\* line, produces one.
C25_SameLineBlockComment ==
    \A k \in 1..Len(execLog) :
        /\ (\E o \in OpenersBefore(execLog[k]) : ClosersBetween(execLog[k], o + 2) = {})
               => ~IssueAt(execLog[k])
        /\ (/\ OpenersBefore(execLog[k]) # {}
            /\ ClosersBetween(execLog[k], Max(OpenersBefore(execLog[k])) + 2) # {}
            /\ ~SlashSlashStartsBefore(execLog[k]))
               => IssueAt(execLog[k])

\* what C30 says of a state: the cursor of the rule is 0 when the loop of
\* findPatternMatches is about to make its first exec call and 0 when the
\* call has returned
C30_State ==
    /\ (lpc = "loop" /\ execLog = <<>>) => cursor = 0
    /\ lpc = "returned" => cursor = 0

\* C30: the rule's cursor is 0 when findPatternMatches starts matching and 0
\* again when it returns, so no match position is carried over to the next
\* call; no step of the call changes another field of the rule.
C30_CursorFrame == [](C30_State) /\ [][rule' = rule]_vars

\* C30 witness: a call has returned after two matches, the second at the end
\* of the content, and the cursor is 0
C30_Witness ==
    /\ lpc = "returned" /\ cursor = 0
    /\ Len(execLog) = 2
    /\ execLog[2].index = Len(content) - 1

\* ------------------------------------------------- claims: workspace scans
\* the issues scanFile returns for file f when it can be read
FileIssues(f) == ScanRules(fs[f].content, f, 1, [k \in 1..NumRules |-> 0], <<>>).issues

\* the issues, in order, of the readable files among the first n of files
RECURSIVE IssuesOfReadable(_, _)
IssuesOfReadable(files, n) ==
    IF n = 0 THEN <<>>
    ELSE IssuesOfReadable(files, n - 1)
             \o (IF fs[files[n]].readable THEN FileIssues(files[n]) ELSE <<>>)

\* the kept files that cannot be read, in order, among the first n of files
RECURSIVE Unreadable(_, _)
Unreadable(files, n) ==
    IF n = 0 THEN <<>>
    ELSE Unreadable(files, n - 1)
             \o (IF fs[files[n]].readable THEN <<>> ELSE <<files[n]>>)

\* the last n entries of consoleErrors (all of them when there are fewer)
LastLogged(n) ==
    IF n >= Len(consoleErrors) THEN consoleErrors
    ELSE SubSeq(consoleErrors, Len(consoleErrors) - n + 1, Len(consoleErrors))

\* the files of the workspace the filter keeps
KeptFiles == {f \in 1..Len(fs) : fs[f].ext \in JsTsExtensions}

\* the number of issues of the list with the severity
NumWithSeverity(r, sev) ==
    Cardinality({i \in DOMAIN r.issues : r.issues[i].severity = sev})

\* C1: in every returned result totalIssues is the length of the issue list
\* and the sum of the four severity counts, and each count is the number of
\* issues of that severity.
C1_CountsPartitionIssues ==
    \A k \in 1..Len(results) :
        /\ results[k].totalIssues = Len(results[k].issues)
        /\ results[k].totalIssues =
               results[k].criticalCount + results[k].highCount
                   + results[k].mediumCount + results[k].lowCount
        /\ results[k].criticalCount = NumWithSeverity(results[k], "critical")
        /\ results[k].highCount = NumWithSeverity(results[k], "high")
        /\ results[k].mediumCount = NumWithSeverity(results[k], "medium")
        /\ results[k].lowCount = NumWithSeverity(results[k], "low")

\* C1 witness: a result with issues of two severities from a scan in which a
\* file could not be read
C1_Witness ==
    \E k \in 1..Len(results) :
        /\ results[k].highCount > 0 /\ results[k].lowCount > 0
        /\ \E f \in KeptFiles : ~fs[f].readable

\* C4: filesScanned of every result is the number of kept files that could
\* be read: a file whose read fails is not counted.
C4_FilesScannedExcludesFailed ==
    \A k \in 1..Len(results) :
        results[k].filesScanned = Cardinality({f \in KeptFiles : fs[f].readable})

\* what C5 says of a state: while a scan loops over the files it has logged
\* exactly the unreadable files it has visited and holds exactly the issues
\* of the readable ones; every result (looked at when a scan has returned,
\* the only step that adds one) holds the issues of the readable files alone
C5_State ==
    /\ spc = "loop" =>
           /\ issues = IssuesOfReadable(jstsFiles, idx - 1)
           /\ LastLogged(Len(Unreadable(jstsFiles, idx - 1))) = Unreadable(jstsFiles, idx - 1)
    /\ (spc = "idle" /\ results # <<>>) =>
           \E kept \in {FilterJsTs(fs, 1)} :
               \E expected \in {IssuesOfReadable(kept, Len(kept))} :
                   \A k \in 1..Len(results) : results[k].issues = expected

\* what C5 says of a step: a step of the loop either goes on to the next
\* file or, after the last file, returns a result, and never throws
C5_Step ==
    spc = "loop" =>
        /\ thrown' = thrown
        /\ \/ spc' = "loop" /\ idx' = idx + 1 /\ results' = results
           \/ /\ spc' = "idle" /\ idx = Len(jstsFiles) + 1
              /\ Len(results') = Len(results) + 1

\* C5: a read failure is caught and logged by the per-file scan and never
\* ends the scan: every later file is still scanned, a result is returned,
\* and its issues are exactly those of the files that could be read, as if
\* the failed file were not in the workspace.
C5_FailureNeverAborts == [](C5_State) /\ [][C5_Step]_vars

\* C5 witness: a result that holds the issues of a file scanned after a file
\* that could not be read
C5_Witness ==
    /\ Len(results) >= 1
    /\ \E f, g \in KeptFiles :
           /\ f < g /\ ~fs[f].readable /\ fs[g].readable
           /\ \E i \in 1..Len(results[1].issues) : results[1].issues[i].filePath = g

\* C10: all the results of the scans of the unchanged workspace are equal,
\* issue for issue and count for count.
C10_Idempotent ==
    \A j, k \in 1..Len(results) : results[j] = results[k]

\* C10 witness: two results with several issues, one file having a match in
\* a comment
C10_Witness ==
    /\ Len(results) >= 2
    /\ results[2].totalIssues >= 2
    /\ \E f \in KeptFiles : fs[f].readable /\ fs[f].content = <<"/", "/", "e">>

\* the place in the catalog of the rule an issue carries the message of
RuleOf(issue) ==
    Min({k \in 1..NumRules : vulnerabilityPatterns[k].message = issue.message})

\* issue x lies before issue y by file, then rule, then position in the file
Precedes(x, y) ==
    \/ x.filePath < y.filePath
    \/ /\ x.filePath = y.filePath
       /\ \/ RuleOf(x) < RuleOf(y)
          \/ /\ RuleOf(x) = RuleOf(y)
             /\ \/ x.line < y.line
                \/ x.line = y.line /\ x.column < y.column

\* C11: in every result, of any two issues the one of the earlier file, or
\* of the earlier rule in one file, or at the earlier offset under one file
\* and rule, comes first.
C11_IssueOrder ==
    spc = "idle" =>
        \A k \in 1..Len(results) :
            \A i, j \in 1..Len(results[k].issues) :
                i < j => Precedes(results[k].issues[i], results[k].issues[j])

\* C11 witness: a result with issues of two files, the first file having
\* issues of two rules and two issues of one rule
C11_Witness ==
    /\ spc = "idle"
    /\ \E k \in 1..Len(results) :
           \E a, b, c, d \in 1..Len(results[k].issues) :
               LET is == results[k].issues
               IN  /\ a < b /\ b < c /\ c < d
                   /\ is[a].filePath = is[b].filePath /\ RuleOf(is[a]) = RuleOf(is[b])
                   /\ is[b].filePath = is[c].filePath /\ RuleOf(is[b]) < RuleOf(is[c])
                   /\ is[c].filePath < is[d].filePath

\* the sum over the catalog rules from k on of their matches outside comments
RECURSIVE SumOfMatches(_, _)
SumOfMatches(text, k) ==
    IF k > NumRules THEN 0
    ELSE Cardinality(NonSuppressedMatches(text, vulnerabilityPatterns[k]))
             + SumOfMatches(text, k + 1)

\* the issues of the result that lie in file f
IssuesIn(r, f) == {i \in 1..Len(r.issues) : r.issues[i].filePath = f}

\* C12: in every result the number of issues of a readable file is the sum
\* over the catalog rules of the rule's matches outside comments in the file.
C12_NoDeduplication ==
    spc = "idle" =>
        \A k \in 1..Len(results) :
            \A f \in KeptFiles :
                fs[f].readable =>
                    Cardinality(IssuesIn(results[k], f)) = SumOfMatches(fs[f].content, 1)

\* C12 witness: a result with two issues of different rules at one position
\* of one file
C12_Witness ==
    /\ spc = "idle"
    /\ \E k \in 1..Len(results) :
           \E i, j \in 1..Len(results[k].issues) :
               LET is == results[k].issues
               IN  /\ is[i].filePath = is[j].filePath
                   /\ is[i].line = is[j].line /\ is[i].column = is[j].column
                   /\ is[i].type # is[j].type

\* the issues findPatternMatches constructs for file f, with the paths
\* scanFile adds
ConstructedIn(f) ==
    UNION {{WithPaths(x, f) :
               x \in SeqRange(findPatternMatches(fs[f].content,
                                                 vulnerabilityPatterns[k], 0).issues)} :
           k \in 1..NumRules}

\* the issues constructed during a scan of the workspace: those of the kept
\* files that can be read
Constructed == UNION {ConstructedIn(f) : f \in {h \in KeptFiles : fs[h].readable}}

\* the count of the result for the severity
CountOf(r, sev) ==
    CASE sev = "critical" -> r.criticalCount [] sev = "high" -> r.highCount
      [] sev = "medium" -> r.mediumCount [] sev = "low" -> r.lowCount

\* C15: every issue constructed during a scan that returns a result is in
\* the result's issues exactly once, has exactly one of the four severities,
\* and totalIssues and the count of its severity count every such issue.
C15_NoIssueLost ==
    spc = "idle" =>
        \E made \in {Constructed} :
            \A k \in 1..Len(results) :
                /\ \A x \in made :
                       /\ Cardinality({i \in 1..Len(results[k].issues) :
                                          results[k].issues[i] = x}) = 1
                       /\ x.severity \in Severities
                /\ results[k].totalIssues = Cardinality(made)
                /\ \A sev \in Severities :
                       CountOf(results[k], sev)
                           = Cardinality({x \in made : x.severity = sev})

\* C15 witness: a result of a scan in which issues were constructed for two
\* files, one of them for two rules
C15_Witness ==
    /\ spc = "idle" /\ results # <<>>
    /\ \E f, g \in KeptFiles :
           /\ f # g /\ fs[f].readable /\ fs[g].readable
           /\ ConstructedIn(g) # {}
           /\ \E x, y \in ConstructedIn(f) : x.type # y.type

\* C19: filesScanned of a result never exceeds the number of kept files and
\* equals it when every kept file can be read, whether or not the files hold
\* issues; a result with a critical issue is classified CRITICAL.
C19_CleanFilesCounted ==
    spc = "idle" =>
        \A k \in 1..Len(results) :
            /\ results[k].filesScanned <= Cardinality(KeptFiles)
            /\ (\A f \in KeptFiles : fs[f].readable)
                   => results[k].filesScanned = Cardinality(KeptFiles)
            /\ results[k].criticalCount > 0
                   => calculateRiskLevel(results[k]) = "CRITICAL"

\* C19 witness: a result for a workspace of a file with two critical issues
\* and a medium one and a file without issues: both files counted, two
\* critical, one medium, CRITICAL
C19_Witness ==
    /\ spc = "idle"
    /\ \E k \in 1..Len(results) :
           /\ Cardinality(KeptFiles) = MaxFiles
           /\ \E f \in KeptFiles : fs[f].readable /\ FileIssues(f) = <<>>
           /\ results[k].filesScanned = MaxFiles
           /\ results[k].criticalCount = 2 /\ results[k].mediumCount = 1
           /\ results[k].totalIssues = 3
           /\ calculateRiskLevel(results[k]) = "CRITICAL"

\* ------------------------------------------- claims: command and panel
\* the step begins the scan of a file: the first after the files are
\* collected, or the next after a file is finished
FileStarted ==
    \/ spc = "collect" /\ spc' = "loop" /\ Len(jstsFiles') >= 1
    \/ spc = "loop" /\ idx' = idx + 1 /\ idx' <= Len(jstsFiles)

\* what C13 says of a step
C13_Step == (cpc = "scanning" /\ cancelRequested) => ~FileStarted

\* C13 as claimed: once the cancellation of a running scan has been
\* requested, no step begins the scan of a new file.
C13_NoFileAfterCancel == [][C13_Step]_vars

\* the panel and the notifications are after the step as before it
PanelUntouched ==
    /\ scanResult' = scanResult
    /\ treeEvents' = treeEvents
    /\ panelCalls' = panelCalls
    /\ notifications' = notifications

\* what C14 says of a step: while the command awaits the scan, and when the
\* scan returns its result after the cancellation was requested, the step
\* calls no updateResults, leaves the stored result as it was and shows no
\* notification
C14_Step ==
    (/\ cpc = "scanning"
     /\ \/ cpc' = "scanning"
        \/ cancelRequested /\ Len(results') = Len(results) + 1)
        => PanelUntouched

\* the updateResults calls so far
UpdateCalls == SelectSeq(panelCalls, LAMBDA c : c.op = "updateResults")

\* the result notifications shown so far
ResultNotifications == SelectSeq(notifications, LAMBDA n : n \in {"clean", "found"})

\* C14: a scan that ends with the cancellation requested publishes nothing:
\* no updateResults call, the result stored in the panel as before the scan,
\* no result notification; so the panel has as many updateResults calls and
\* result notifications as scans that ended without it.
C14_CancelledScanDeliversNothing ==
    /\ [][C14_Step]_vars
    /\ [](/\ Len(UpdateCalls) = Len(ResultNotifications)
          /\ Len(UpdateCalls) <= Len(results)
          /\ (cpc = "idle" /\ cancelRequested /\ thrown = 0)
                 => Len(UpdateCalls) < Len(results))

\* C14 witness: the second run of the command has ended, cancelled, with a
\* result that has issues; the panel holds the result of the first run and
\* has had one updateResults call and one notification
C14_Witness ==
    /\ cpc = "idle" /\ cancelRequested
    /\ Len(results) = 2 /\ results[2].totalIssues > 0
    /\ Len(panelCalls) = 1 /\ treeEvents = 1
    /\ scanResult = <<results[1]>>
    /\ notifications = <<"found">>

\* C20: getResults returns the argument of the last call when that call is
\* an updateResults, with the issues of that argument alone, and null when
\* it is a clearResults or no call was made; every call has fired one
\* tree-change event.
C20_PanelHoldsLastResult ==
    /\ getResults = IF panelCalls = <<>> THEN <<>>
                    ELSE panelCalls[Len(panelCalls)].arg
    /\ treeEvents = Len(panelCalls)
    /\ \A i \in 1..Len(panelCalls) :
           panelCalls[i].op = "clearResults" <=> panelCalls[i].arg = <<>>

\* C20 witness: after an updateResults, a clearResults and an updateResults
\* with another result, both with issues, the panel holds the second result
C20_Witness ==
    /\ Len(panelCalls) = 3
    /\ panelCalls[1].op = "updateResults" /\ panelCalls[1].arg[1].totalIssues > 0
    /\ panelCalls[2].op = "clearResults"
    /\ panelCalls[3].op = "updateResults" /\ panelCalls[3].arg[1].totalIssues > 0
    /\ panelCalls[3].arg # panelCalls[1].arg
    /\ getResults = panelCalls[3].arg
    /\ treeEvents = 3

\* the step is a run of the generateSecurityReport command: a message is
\* shown and neither updateResults nor clearResults is called
GenerateStep == notifications' # notifications /\ panelCalls' = panelCalls

\* totalIssues of the stored result, 0 when none is stored
StoredIssues == IF scanResult = <<>> THEN 0 ELSE scanResult[1].totalIssues

\* what C21 says of a step
C21_Step ==
    /\ reports' # reports =>
           /\ StoredIssues > 0
           /\ reports' = Append(reports, reports'[Len(reports')])
           /\ reports'[Len(reports')].result = scanResult[1]
    /\ (GenerateStep /\ StoredIssues = 0) =>
           /\ reports' = reports
           /\ notifications' = Append(notifications, "no-results")
    /\ (GenerateStep /\ StoredIssues > 0) => Len(reports') = Len(reports) + 1

StoredLevel == calculateRiskLevel(scanResult[1])

\* C22 as claimed: a report can show each of the five risk levels: whichever
\* of the five levels the stored result has, the run of the
\* generateSecurityReport command writes a report with that level.
C22_EveryLevelReported ==
    [][(GenerateStep /\ scanResult # <<>>) =>
           /\ Len(reports') = Len(reports) + 1
           /\ reports'[Len(reports')].riskLevel = StoredLevel]_vars

\* the items of the tree that getChildren may be asked about: the root, the
\* four groups, the summary and the placeholder
TreeElements ==
    {<<>>} \cup {<<SecurityTreeItem("group", s, <<>>)>> : s \in Severities}
           \cup {<<SecurityTreeItem("summary", "", <<>>)>>,
                 <<SecurityTreeItem("info", "", <<>>)>>}

\* the groups shown at the root
RootGroups == {getChildren(<<>>)[j] : j \in 2..Len(getChildren(<<>>))}

\* the number of places an issue has under the groups shown at the root
PlacesOf(x) ==
    Cardinality({p \in RootGroups \X (1..Len(scanResult[1].issues)) :
                    /\ p[2] <= Len(getChildren(<<p[1]>>))
                    /\ getChildren(<<p[1]>>)[p[2]].issue = <<x>>})

\* C26: with a stored result that has issues the root is the summary item
\* followed by the groups of the severities whose count is > 0, in the order
\* critical, high, medium, low; the children of a group are the stored
\* issues of its severity in result order, as many as the result's count, and
\* every stored issue is under exactly one group; with no stored result or
\* totalIssues = 0 getChildren returns the single placeholder.
C26_TreePartitionsIssues ==
    IF StoredIssues = 0
    THEN \A el \in TreeElements :
             /\ Len(getChildren(el)) = 1
             /\ getChildren(el)[1].kind = "info"
    ELSE /\ getChildren(<<>>)[1].kind = "summary"
         /\ \A j \in 2..Len(getChildren(<<>>)) : getChildren(<<>>)[j].kind = "group"
         /\ [j \in 1..(Len(getChildren(<<>>)) - 1) |-> getChildren(<<>>)[j + 1].severity]
                = SelectSeq(<<"critical", "high", "medium", "low">>,
                            LAMBDA s : CountOf(scanResult[1], s) > 0)
         /\ \A g \in RootGroups :
                /\ Len(getChildren(<<g>>)) = CountOf(scanResult[1], g.severity)
                /\ [j \in 1..Len(getChildren(<<g>>)) |-> getChildren(<<g>>)[j].issue[1]]
                       = SelectSeq(scanResult[1].issues,
                                   LAMBDA i : i.severity = g.severity)
         /\ \A i \in 1..Len(scanResult[1].issues) : PlacesOf(scanResult[1].issues[i]) = 1

\* C26 witness: the panel holds a result with two critical issues and a
\* medium one: the root has the summary, the critical and the medium group,
\* and the critical group has the two issues in result order
C26_Witness ==
    /\ StoredIssues = 3
    /\ Len(getChildren(<<>>)) = 3
    /\ getChildren(<<>>)[2].severity = "critical"
    /\ getChildren(<<>>)[3].severity = "medium"
    /\ Len(getChildren(<<getChildren(<<>>)[2]>>)) = 2
    /\ getChildren(<<getChildren(<<>>)[2]>>)[1].issue[1].line = 1
    /\ getChildren(<<getChildren(<<>>)[2]>>)[2].issue[1].line = 2

\* -------------------------------------------------- claims: risk classifier
\* the order CLEAN < LOW < MEDIUM < HIGH < CRITICAL
Rank(l) ==
    CASE l = "CLEAN" -> 0 [] l = "LOW" -> 1 [] l = "MEDIUM" -> 2
      [] l = "HIGH" -> 3 [] l = "CRITICAL" -> 4

\* the decision table of the risk levels, in order
RiskTable(c) ==
    << [when |-> c.criticalCount > 0, level |-> "CRITICAL"],
       [when |-> c.highCount >= 5, level |-> "HIGH"],
       [when |-> c.highCount > 0 \/ c.mediumCount >= 10, level |-> "MEDIUM"],
       [when |-> c.mediumCount > 0 \/ c.lowCount > 0, level |-> "LOW"],
       [when |-> TRUE, level |-> "CLEAN"] >>

FirstRow(c) == Min({i \in 1..Len(RiskTable(c)) : RiskTable(c)[i].when})

\* C2: the level computed is that of the first matching row of the table;
\* with a critical issue it is CRITICAL whatever the other counts.
C2_DecisionTable ==
    level # "" =>
        /\ level = RiskTable(counts)[FirstRow(counts)].level
        /\ counts.criticalCount > 0 => level = "CRITICAL"

\* C2 witness: a result without critical or high issues classified MEDIUM
\* for its ten medium issues
C2_Witness ==
    /\ level = "MEDIUM"
    /\ counts.criticalCount = 0 /\ counts.highCount = 0 /\ counts.mediumCount = 10

\* C3: with one more critical issue, the other counts unchanged, the level
\* is not lower than the level computed.
C3_MonotonicInCritical ==
    level # "" =>
        Rank(calculateRiskLevel([counts EXCEPT !.criticalCount = @ + 1])) >= Rank(level)

\* C3 witness: a result classified HIGH, which one more critical issue raises
C3_Witness ==
    /\ level = "HIGH"
    /\ calculateRiskLevel([counts EXCEPT !.criticalCount = @ + 1]) = "CRITICAL"

\* C27: with one more high, medium or low issue, the other counts unchanged,
\* the level is not lower than the level computed; the level is CLEAN exactly
\* when the four counts are zero.
C27_MonotonicInEverySeverity ==
    level # "" =>
        /\ Rank(calculateRiskLevel([counts EXCEPT !.highCount = @ + 1])) >= Rank(level)
        /\ Rank(calculateRiskLevel([counts EXCEPT !.mediumCount = @ + 1])) >= Rank(level)
        /\ Rank(calculateRiskLevel([counts EXCEPT !.lowCount = @ + 1])) >= Rank(level)
        /\ level = "CLEAN" <=>
               /\ counts.criticalCount = 0 /\ counts.highCount = 0
               /\ counts.mediumCount = 0 /\ counts.lowCount = 0

\* C27 witness: a result with three high and ten medium issues classified
\* MEDIUM, which one more medium issue leaves MEDIUM and two more high
\* issues raise to HIGH
C27_Witness ==
    /\ level = "MEDIUM"
    /\ counts.criticalCount = 0 /\ counts.highCount = 3 /\ counts.mediumCount = 10
    /\ calculateRiskLevel([counts EXCEPT !.mediumCount = @ + 1]) = "MEDIUM"
    /\ calculateRiskLevel([counts EXCEPT !.highCount = @ + 2]) = "HIGH"


\* ------------------------------------------------ claims: dashboard health
\* the documented grade scale: the grade and the scores it covers
GradeScale ==
    << <<"A+", 90, 100>>, <<"A", 85, 89>>, <<"A-", 80, 84>>, <<"B+", 75, 79>>,
       <<"B", 70, 74>>, <<"B-", 65, 69>>, <<"C+", 60, 64>>, <<"C", 55, 59>>,
       <<"C-", 50, 54>>, <<"D", 45, 49>>, <<"F", 0, 44>> >>

\* the place of a grade on the scale, 1 for the best
GradeRank(g) == CHOOSE i \in 1..Len(GradeScale) : GradeScale[i][1] = g

\* the security result with one more issue of severity field f
OneMore(security, f) == <<[security[1] EXCEPT ![f] = @ + 1]>>

SeverityFields == {"criticalCount", "highCount", "mediumCount", "lowCount"}

\* C23: the health score is 100 less 20 per critical, 10 per high, 5 per
\* medium and 1 per low issue and less the complexity penalties, limited to
\* 0..100; its grade is the one whose range on the documented scale holds the
\* score; and one more issue of any severity gives a score no higher and a
\* grade no better.
C23_HealthScoreAndGrade ==
    overall # <<>> =>
        LET sec == IF dashSecurity = <<>>
                   THEN [criticalCount |-> 0, highCount |-> 0, mediumCount |-> 0,
                         lowCount |-> 0]
                   ELSE dashSecurity[1]
            raw == 100 - 20 * sec.criticalCount - 10 * sec.highCount
                   - 5 * sec.mediumCount - sec.lowCount
                   - complexityPenalty(dashComplexity)
            expected == IF raw < 0 THEN 0 ELSE IF raw > 100 THEN 100 ELSE raw
        IN /\ overall[1].overallScore = expected
           /\ overall[1].overallScore \in 0..100
           /\ \E i \in 1..Len(GradeScale) :
                /\ GradeScale[i][1] = overall[1].overallGrade
                /\ GradeScale[i][2] <= overall[1].overallScore
                /\ overall[1].overallScore <= GradeScale[i][3]
           /\ dashSecurity # <<>> =>
                \A f \in SeverityFields :
                    LET more == calculateOverallHealth(OneMore(dashSecurity, f),
                                                       dashComplexity)
                    IN /\ more.overallScore <= overall[1].overallScore
                       /\ GradeRank(more.overallGrade) >= GradeRank(overall[1].overallGrade)

\* two critical, two high, two medium and four low issues with an average
\* complexity of 71 and two high-complexity files take 108 points off: the
\* score stops at 0 and the grade is F
C23_Witness ==
    /\ overall # <<>> /\ dashSecurity # <<>> /\ dashComplexity # <<>>
    /\ dashSecurity[1] = [criticalCount |-> 2, highCount |-> 2, mediumCount |-> 2,
                          lowCount |-> 4]
    /\ dashComplexity[1] = [averageComplexity |-> 71, highComplexityFiles |-> 2]
    /\ overall[1] = [overallGrade |-> "F", overallScore |-> 0]

\* the complexity penalty as documented for an average a
DocumentedPenalty(a) ==
    IF a > 70 THEN 30
    ELSE IF 50 <= a /\ a <= 70 THEN 15
    ELSE IF 30 <= a /\ a < 50 THEN 5
    ELSE 0

\* C24: with complexity data and no security result, the score is 100 less
\* 30 for an average above 70, 15 for an average from 50 to 70, 5 for an
\* average from 30 to 49, nothing below 30, and less 2 per high-complexity
\* file, at every average from 0 to 100.
C24_ComplexityPenaltyByRange ==
    (overall # <<>> /\ dashSecurity = <<>> /\ dashComplexity # <<>>) =>
        overall[1].overallScore =
            100 - DocumentedPenalty(dashComplexity[1].averageComplexity)
                - 2 * dashComplexity[1].highComplexityFiles


\* ------------------------------------------------ claims: overlapping runs
\* the issues and the file count of a scanWorkspace call that runs by itself
\* on a new scanner, with file list js, and reads files[i] at iteration i
RECURSIVE AloneFold(_, _, _, _, _, _)
AloneFold(js, files, i, cursors, acc, n) ==
    IF i > Len(js) THEN MakeResult(acc, n)
    ELSE LET r == scanFile(files[i], js[i], cursors)
         IN  AloneFold(js, files, i + 1, r.lastIndex, acc \o r.issues, n + 1)

RunAlone(js, files) ==
    AloneFold(js, files, 1, [k \in 1..NumRules |-> 0], <<>>, 0)

\* the steps of the history of one kind
EventsOf(what) == SelectSeq(events, LAMBDA e : e.what = what)

\* the runs of a sequence of steps, in order
CmdsOf(es) == [i \in 1..Len(es) |-> es[i].cmd]

\* C28: whatever the interleaving of two scanWorkspace calls on one scanner,
\* the result each returns is the one a call by itself returns for the files
\* as this call read them; with no file edited, it is the result of a scan
\* by itself of the workspace.
C28_OverlappingScansIndependent ==
    \A c \in Commands :
        calls[c].result # <<>> =>
            /\ calls[c].result[1] = RunAlone(calls[c].jstsFiles, calls[c].read)
            /\ edits = 0 =>
                 /\ calls[c].jstsFiles = FilterJsTs(fs, 1)
                 /\ calls[c].read = [i \in 1..Len(calls[c].jstsFiles) |->
                                        fs[calls[c].jstsFiles[i]]]

\* both calls have returned issues from an unedited workspace of two files
\* that they read in turns: run 2 read a file between the two reads of run 1
\* and run 1 read a file between the two reads of run 2
C28_Witness ==
    /\ edits = 0
    /\ CmdsOf(EventsOf("between")) = <<2, 1>>
    /\ \A c \in Commands :
          /\ calls[c].result # <<>>
          /\ calls[c].result[1].totalIssues > 0
    /\ calls[1].result[1].issues[1].filePath # calls[1].result[1].issues[
           calls[1].result[1].totalIssues].filePath

\* C29: the panel never holds anything but the whole result returned to one
\* of the runs, and once two uncancelled runs have both ended it holds the
\* result of the run that ended last.
C29_LastCompletedWins ==
    /\ scanResult # <<>> =>
         \E c \in Commands :
             /\ calls[c].result # <<>>
             /\ scanResult[1] = MakeResult(calls[c].issues, calls[c].filesScanned)
             /\ scanResult = calls[c].result
    /\ Len(EventsOf("published")) = Cardinality(Commands) =>
         scanResult = calls[EventsOf("published")[Len(EventsOf("published"))].cmd].result

\* run 1 starts, then run 2; a file is edited between their reads, so their
\* results differ; run 2 ends first, run 1 last, and the panel holds the
\* result of run 1
C29_Witness ==
    /\ CmdsOf(EventsOf("started")) = <<1, 2>>
    /\ CmdsOf(EventsOf("published")) = <<2, 1>>
    /\ \E i \in 1..Len(events) :
          /\ events[i] = Event(2, "started")
          /\ \A k \in 1..i : events[k].what = "started"
    /\ calls[1].result # calls[2].result
    /\ scanResult = calls[1].result

====
